---- MODULE Spec2Model ----
(***************************************************************************)
(* Model of the recipe generation endpoint (src/app/api/generate/route.ts, *)
(* the rate-limited variant): the per-IP fixed-window rate limiter, the    *)
(* input validator, the POST handler with its three suspension points,     *)
(* and the clean / parse / validate chain applied to the completion text.  *)
(***************************************************************************)
EXTENDS Integers, Sequences, FiniteSets, TLC

(***************************************************************************)
(* Program constants.                                                      *)
(***************************************************************************)
RATE_LIMIT_WINDOW == 60 * 60 * 1000
MAX_REQUESTS_PER_IP == 20
MAX_TOKENS == 30000

(***************************************************************************)
(* Bounds of the model.                                                    *)
(***************************************************************************)
\* request slots that may be in flight at the same time
MaxInflight == 2
\* the clock steps through the instants 0, 1, W, W + 1, 2W, ... (W the window): MaxInstant steps
MaxInstant == 3
\* requests per window the environment sends under a key other than HeavyKey
MaxLight == 1
MaxShortText == 5
MaxFenceText == 8
MaxFetches == 2

Reqs == 1..MaxInflight
SeqReqs == {1}

Min(a, b) == IF a < b THEN a ELSE b

(***************************************************************************)
(* Text.  A text is a sequence of atoms.  An atom is one character that    *)
(* matters to the regular expressions and to JSON (backtick, newline,      *)
(* space, tab, braces, brackets, colon, comma, double quote), the four     *)
(* letters "json", or a word: a run of other characters.                   *)
(***************************************************************************)
\* the backtick character
BT == "bt"
NL == "\n"
SP == " "
TAB == "\t"
QT == "\""
LB == "{"
RB == "}"
LK == "["
RK == "]"
CO == ":"
CM == ","
JSONWORD == "json"

IsSpace(c) == c \in {NL, SP, TAB}

(***************************************************************************)
(* Request payload strings, as String.prototype.trim and .length see them: *)
(* lead whitespace characters, then core characters from the first to the  *)
(* last non-whitespace one (0 when there is none), then trail whitespace.  *)
(* A payload field that is no string has t # "str".                        *)
(***************************************************************************)
Str(lead, core, trail) == [t |-> "str", lead |-> lead, core |-> core, trail |-> trail]
NonStr(t) == [t |-> t, lead |-> 0, core |-> 0, trail |-> 0]
IsString(v) == v.t = "str"
Length(v) == v.lead + v.core + v.trail
Trim(v) == Str(0, v.core, 0)

\* thrown values: an Error carries a message; anything else thrown does not
Error(msg) == [isError |-> TRUE, message |-> msg]
NonError == [isError |-> FALSE, message |-> <<>>]
TypeErrorOf(v) ==
  IF v.t \in {"undefined", "null"}
  THEN Error(<<"Cannot read properties of ", v.t, " (reading trim)">>)
  ELSE Error(<<".trim is not a function">>)

EmptyInputMsg == <<"Ingredients and steps are required.">>
TooLongMsg == <<"Input is too long. Please reduce the length of ingredients or steps.">>
RateLimitMsg == <<"Rate limit exceeded. Please try again later.">>
FallbackMsg == <<"Failed to generate recipe">>

Return(v) == [threw |-> FALSE, value |-> v, error |-> NonError]
Throw(e) == [threw |-> TRUE, value |-> <<>>, error |-> e]

validateInput_lengthFirst(ingredients, steps) ==
  IF ~IsString(ingredients) THEN Throw(TypeErrorOf(ingredients))
  ELSE IF ~IsString(steps) THEN Throw(TypeErrorOf(steps))
  ELSE IF Length(ingredients) + Length(steps) > MAX_TOKENS THEN Return(TooLongMsg)
  ELSE IF Length(Trim(ingredients)) = 0 \/ Length(Trim(steps)) = 0 THEN Return(EmptyInputMsg)
  ELSE Return(<<>>)

validateInput_offByOne(ingredients, steps) ==
  IF ~IsString(ingredients) THEN Throw(TypeErrorOf(ingredients))
  ELSE IF Length(Trim(ingredients)) = 0 THEN Return(EmptyInputMsg)
  ELSE IF ~IsString(steps) THEN Throw(TypeErrorOf(steps))
  ELSE IF Length(Trim(steps)) = 0 THEN Return(EmptyInputMsg)
  ELSE IF Length(ingredients) + Length(steps) >= MAX_TOKENS THEN Return(TooLongMsg)
  ELSE Return(<<>>)

\* validateInput: null (here <<>>) when the input is accepted, else the message.
\* `!ingredients.trim() || !steps.trim()` evaluates left to right and stops at
\* the first true operand; .trim on a value that is no string throws.
validateInput(ingredients, steps) ==
  IF ~IsString(ingredients) THEN Throw(TypeErrorOf(ingredients))
  ELSE IF Length(Trim(ingredients)) = 0 THEN Return(EmptyInputMsg)
  ELSE IF ~IsString(steps) THEN Throw(TypeErrorOf(steps))
  ELSE IF Length(Trim(steps)) = 0 THEN Return(EmptyInputMsg)
  ELSE IF Length(ingredients) + Length(steps) > MAX_TOKENS THEN Return(TooLongMsg)
  ELSE Return(<<>>)

(***************************************************************************)
(* The rate limiter.  ipRequests is a Map: a function whose domain is the  *)
(* set of keys that have an entry.                                         *)
(***************************************************************************)
MapSet(m, k, v) == [x \in (DOMAIN m) \cup {k} |-> IF x = k THEN v ELSE m[x]]
MapDelete(m, ks) == [x \in (DOMAIN m) \ ks |-> m[x]]
Entry(c, t) == [count |-> c, timestamp |-> t]

isRateLimited_offByOne(m, ip, t) ==
  IF ip \notin DOMAIN m
  THEN [limited |-> FALSE, map |-> MapSet(m, ip, Entry(1, t))]
  ELSE IF t - m[ip].timestamp > RATE_LIMIT_WINDOW
  THEN [limited |-> FALSE, map |-> MapSet(m, ip, Entry(1, t))]
  ELSE IF m[ip].count > MAX_REQUESTS_PER_IP
  THEN [limited |-> TRUE, map |-> m]
  ELSE [limited |-> FALSE, map |-> MapSet(m, ip, Entry(m[ip].count + 1, m[ip].timestamp))]

isRateLimited_keepCount(m, ip, t) ==
  IF ip \notin DOMAIN m
  THEN [limited |-> FALSE, map |-> MapSet(m, ip, Entry(1, t))]
  ELSE IF t - m[ip].timestamp > RATE_LIMIT_WINDOW
  THEN [limited |-> FALSE, map |-> MapSet(m, ip, Entry(m[ip].count, t))]
  ELSE IF m[ip].count >= MAX_REQUESTS_PER_IP
  THEN [limited |-> TRUE, map |-> m]
  ELSE [limited |-> FALSE, map |-> MapSet(m, ip, Entry(m[ip].count + 1, m[ip].timestamp))]

isRateLimited_lostUpdate(m, ip, t) ==
  IF ip \notin DOMAIN m
  THEN [limited |-> FALSE, map |-> MapSet(m, ip, Entry(1, t))]
  ELSE IF t - m[ip].timestamp > RATE_LIMIT_WINDOW
  THEN [limited |-> FALSE, map |-> MapSet(m, ip, Entry(1, t))]
  ELSE IF m[ip].count >= MAX_REQUESTS_PER_IP
  THEN [limited |-> TRUE, map |-> m]
  ELSE IF m[ip].count % 2 = 0
  THEN [limited |-> FALSE, map |-> m]
  ELSE [limited |-> FALSE, map |-> MapSet(m, ip, Entry(m[ip].count + 1, m[ip].timestamp))]

isRateLimited_countDenied(m, ip, t) ==
  IF ip \notin DOMAIN m
  THEN [limited |-> FALSE, map |-> MapSet(m, ip, Entry(1, t))]
  ELSE IF t - m[ip].timestamp > RATE_LIMIT_WINDOW
  THEN [limited |-> FALSE, map |-> MapSet(m, ip, Entry(1, t))]
  ELSE IF m[ip].count >= MAX_REQUESTS_PER_IP
  THEN [limited |-> TRUE, map |-> MapSet(m, ip, Entry(m[ip].count + 1, m[ip].timestamp))]
  ELSE [limited |-> FALSE, map |-> MapSet(m, ip, Entry(m[ip].count + 1, m[ip].timestamp))]

isRateLimited_slidingReset(m, ip, t) ==
  IF ip \notin DOMAIN m
  THEN [limited |-> FALSE, map |-> MapSet(m, ip, Entry(1, t))]
  ELSE IF t - m[ip].timestamp > RATE_LIMIT_WINDOW
  THEN [limited |-> FALSE, map |-> MapSet(m, ip, Entry(1, t))]
  ELSE IF m[ip].count >= MAX_REQUESTS_PER_IP
  THEN [limited |-> t - m[ip].timestamp < RATE_LIMIT_WINDOW, map |-> m]
  ELSE [limited |-> FALSE, map |-> MapSet(m, ip, Entry(m[ip].count + 1, m[ip].timestamp))]

isRateLimited_touchStart(m, ip, t) ==
  IF ip \notin DOMAIN m
  THEN [limited |-> FALSE, map |-> MapSet(m, ip, Entry(1, t))]
  ELSE IF t - m[ip].timestamp > RATE_LIMIT_WINDOW
  THEN [limited |-> FALSE, map |-> MapSet(m, ip, Entry(1, t))]
  ELSE IF m[ip].count >= MAX_REQUESTS_PER_IP
  THEN [limited |-> TRUE, map |-> m]
  ELSE [limited |-> FALSE, map |-> MapSet(m, ip, Entry(m[ip].count + 1, t))]

isRateLimited_noConsume(m, ip, t) ==
  IF ip \notin DOMAIN m
  THEN [limited |-> FALSE, map |-> MapSet(m, ip, Entry(1, t))]
  ELSE IF t - m[ip].timestamp > RATE_LIMIT_WINDOW
  THEN [limited |-> FALSE, map |-> MapSet(m, ip, Entry(1, t))]
  ELSE IF m[ip].count >= MAX_REQUESTS_PER_IP
  THEN [limited |-> TRUE, map |-> m]
  ELSE [limited |-> FALSE, map |-> m]

\* isRateLimited(ip) called at time t on the map m: the answer and the map it leaves
isRateLimited(m, ip, t) ==
  IF ip \notin DOMAIN m
  THEN [limited |-> FALSE, map |-> MapSet(m, ip, Entry(1, t))]
  ELSE IF t - m[ip].timestamp > RATE_LIMIT_WINDOW
  THEN [limited |-> FALSE, map |-> MapSet(m, ip, Entry(1, t))]
  ELSE IF m[ip].count >= MAX_REQUESTS_PER_IP
  THEN [limited |-> TRUE, map |-> m]
  ELSE [limited |-> FALSE, map |-> MapSet(m, ip, Entry(m[ip].count + 1, m[ip].timestamp))]

Expired_early(m, t) == {ip \in DOMAIN m : t - m[ip].timestamp > 1}

Expired_inclusive(m, t) == {ip \in DOMAIN m : t - m[ip].timestamp >= RATE_LIMIT_WINDOW}

\* the setInterval callback: the keys it deletes at time t
Expired(m, t) == {ip \in DOMAIN m : t - m[ip].timestamp > RATE_LIMIT_WINDOW}

(***************************************************************************)
(* The x-forwarded-for header, as the sequence of its comma-separated      *)
(* entries; <<>> is the absent header (get returns null) and <<"">> the    *)
(* empty string, which is falsy too.                                       *)
(***************************************************************************)
NoHeader == <<>>
HeavyKey == "a"
Headers == {NoHeader, <<HeavyKey>>, <<HeavyKey, "b">>}
HeavyHeaders == {<<HeavyKey>>, <<HeavyKey, "b">>}
\* absent, empty, with an empty first entry, and with first entries that differ
KeyHeaders ==
  {NoHeader, <<"">>, <<"", "b">>, <<HeavyKey>>, <<HeavyKey, "b">>, <<"b">>, <<"b", HeavyKey>>,
   <<"unknown">>}

ClientKey_lastEntry(forwardedFor) ==
  IF forwardedFor # NoHeader /\ forwardedFor # <<"">>
  THEN forwardedFor[Len(forwardedFor)] ELSE "unknown"

\* forwardedFor ? forwardedFor.split(",")[0] : "unknown"
ClientKey(forwardedFor) ==
  IF forwardedFor # NoHeader /\ forwardedFor # <<"">> THEN forwardedFor[1] ELSE "unknown"

Keys == {ClientKey(h) : h \in Headers \cup KeyHeaders}

(***************************************************************************)
(* JSON values: [t |-> tag, x |-> content].  A string's content is its     *)
(* atoms, an array's its elements, an object's its members [k, v] in       *)
(* source order, a number's or boolean's its one literal word.             *)
(***************************************************************************)
JStr(x) == [t |-> "str", x |-> x]
JArr(x) == [t |-> "arr", x |-> x]
JObj(x) == [t |-> "obj", x |-> x]
JNum(w) == [t |-> "num", x |-> <<w>>]
JBool(w) == [t |-> "bool", x |-> <<w>>]
JNull == [t |-> "null", x |-> <<>>]
Undefined == [t |-> "undefined", x |-> <<>>]
Member(k, v) == [k |-> k, v |-> v]

NumberWords == {"0", "2", "5", "15"}

(***************************************************************************)
(* The clean chain of the handler.                                         *)
(***************************************************************************)
Fence == <<BT, BT, BT>>
StartsWith(s, i, p) == i + Len(p) - 1 <= Len(s) /\ SubSeq(s, i, i + Len(p) - 1) = p

\* text.replace(/```json\n?|\n?```/g, ""): scanning from i, at each position the
\* first alternative is tried before the second, and \n? is greedy
\* a match starts with a backtick or a newline: the first such position from i on
NextSpecial(s, i) ==
  LET special == {j \in i..Len(s) : s[j] \in {BT, NL}}
  IN IF special = {} THEN Len(s) + 1 ELSE CHOOSE j \in special : \A k \in special : j <= k

RECURSIVE RemoveFencesFrom(_, _)
RemoveFencesFrom(s, i) ==
  IF i > Len(s) THEN <<>>
  ELSE IF StartsWith(s, i, Fence \o <<JSONWORD>>)
  THEN IF i + 4 <= Len(s) /\ s[i + 4] = NL
       THEN RemoveFencesFrom(s, i + 5)
       ELSE RemoveFencesFrom(s, i + 4)
  ELSE IF s[i] = NL /\ StartsWith(s, i + 1, Fence)
  THEN RemoveFencesFrom(s, i + 4)
  ELSE IF StartsWith(s, i, Fence)
  THEN RemoveFencesFrom(s, i + 3)
  ELSE LET j == NextSpecial(s, i + 1)
       IN SubSeq(s, i, j - 1) \o RemoveFencesFrom(s, j)

RemoveFences(s) == RemoveFencesFrom(s, 1)

RECURSIVE LeadingSpaces(_)
LeadingSpaces(s) ==
  IF s # <<>> /\ IsSpace(Head(s)) THEN 1 + LeadingSpaces(Tail(s)) ELSE 0

RECURSIVE TrailingSpaces(_)
TrailingSpaces(s) ==
  IF s # <<>> /\ IsSpace(s[Len(s)]) THEN 1 + TrailingSpaces(SubSeq(s, 1, Len(s) - 1)) ELSE 0

\* .replace(/^[\s\n]*\{/, "{")
CleanStart(s) ==
  LET k == LeadingSpaces(s)
  IN IF k < Len(s) /\ s[k + 1] = LB THEN SubSeq(s, k + 1, Len(s)) ELSE s

\* .replace(/\}[\s\n]*$/, "}")
CleanEnd(s) ==
  LET k == TrailingSpaces(s)
  IN IF k < Len(s) /\ s[Len(s) - k] = RB THEN SubSeq(s, 1, Len(s) - k) ELSE s

\* .trim()
TrimText(s) ==
  LET a == LeadingSpaces(s)
      b == TrailingSpaces(s)
  IN IF a = Len(s) THEN <<>> ELSE SubSeq(s, a + 1, Len(s) - b)

clean(text) == TrimText(CleanEnd(CleanStart(RemoveFences(text))))

(***************************************************************************)
(* JSON.parse on a text: objects, arrays, strings, the literals null,      *)
(* true, false and the numerals of NumberWords.  Inside a string literal   *)
(* the two-character escapes for newline, tab and the double quote are     *)
(* one atom each.                                                          *)
(***************************************************************************)
ESC_NL == "\\n"
ESC_TAB == "\\t"
\* the backslash followed by the double quote
ESC_QT == "\\q"

\* the character an atom of a string literal stands for
Unescape(c) ==
  CASE c = ESC_NL -> NL
    [] c = ESC_TAB -> TAB
    [] c = ESC_QT -> QT
    [] OTHER -> c

Parsed(v, n) == [ok |-> TRUE, val |-> v, next |-> n]
NoParse == [ok |-> FALSE, val |-> JNull, next |-> 0]

RECURSIVE SkipWs(_, _)
SkipWs(s, i) == IF i <= Len(s) /\ IsSpace(s[i]) THEN SkipWs(s, i + 1) ELSE i

\* the index of the closing quote of the string that opens at i - 1, 0 if none
\* (a raw newline or tab inside a string is a syntax error)
RECURSIVE ClosingQuote(_, _)
ClosingQuote(s, i) ==
  IF i > Len(s) THEN 0
  ELSE IF s[i] = QT THEN i
  ELSE IF s[i] \in {NL, TAB} THEN 0
  ELSE ClosingQuote(s, i + 1)

ParseString(s, i) ==
  IF i <= Len(s) /\ s[i] = QT
  THEN LET j == ClosingQuote(s, i + 1)
       IN IF j = 0 THEN NoParse
          ELSE Parsed(JStr([n \in 1..(j - i - 1) |-> Unescape(s[i + n])]), j + 1)
  ELSE NoParse

\* a member is added to an object; a name that is there already keeps its
\* place and takes the new value
PutMember(members, k, v) ==
  IF \E n \in 1..Len(members) : members[n].k = k
  THEN [n \in 1..Len(members) |-> IF members[n].k = k THEN Member(k, v) ELSE members[n]]
  ELSE Append(members, Member(k, v))

RECURSIVE ParseValue(_, _)
RECURSIVE ParseMembers(_, _, _)
RECURSIVE ParseElements(_, _, _)

ParseMembers(s, i, acc) ==
  LET k == ParseString(s, i)
      j == SkipWs(s, k.next)
      v == ParseValue(s, SkipWs(s, j + 1))
      e == SkipWs(s, v.next)
      members == PutMember(acc, k.val.x, v.val)
  IN IF ~k.ok \/ j > Len(s) \/ s[j] # CO THEN NoParse
     ELSE IF ~v.ok \/ e > Len(s) THEN NoParse
     ELSE IF s[e] = CM THEN ParseMembers(s, SkipWs(s, e + 1), members)
     ELSE IF s[e] = RB THEN Parsed(JObj(members), e + 1)
     ELSE NoParse

ParseElements(s, i, acc) ==
  LET v == ParseValue(s, i)
      e == SkipWs(s, v.next)
      elements == Append(acc, v.val)
  IN IF ~v.ok \/ e > Len(s) THEN NoParse
     ELSE IF s[e] = CM THEN ParseElements(s, SkipWs(s, e + 1), elements)
     ELSE IF s[e] = RK THEN Parsed(JArr(elements), e + 1)
     ELSE NoParse

ParseValue(s, i) ==
  IF i > Len(s) THEN NoParse
  ELSE IF s[i] = QT THEN ParseString(s, i)
  ELSE IF s[i] = LB
  THEN LET j == SkipWs(s, i + 1)
       IN IF j <= Len(s) /\ s[j] = RB THEN Parsed(JObj(<<>>), j + 1)
          ELSE ParseMembers(s, j, <<>>)
  ELSE IF s[i] = LK
  THEN LET j == SkipWs(s, i + 1)
       IN IF j <= Len(s) /\ s[j] = RK THEN Parsed(JArr(<<>>), j + 1)
          ELSE ParseElements(s, j, <<>>)
  ELSE IF s[i] = "null" THEN Parsed(JNull, i + 1)
  ELSE IF s[i] \in {"true", "false"} THEN Parsed(JBool(s[i]), i + 1)
  ELSE IF s[i] \in NumberWords THEN Parsed(JNum(s[i]), i + 1)
  ELSE NoParse

JSONParse(s) ==
  LET r == ParseValue(s, SkipWs(s, 1))
  IN IF r.ok /\ SkipWs(s, r.next) > Len(s) THEN r ELSE NoParse

\* recipe[field]: the last member named field of an object, undefined otherwise
RECURSIVE Lookup(_, _, _)
Lookup(members, field, i) ==
  IF i = 0 THEN Undefined
  ELSE IF members[i].k = <<field>> THEN members[i].v
  ELSE Lookup(members, field, i - 1)

Get(recipe, field) ==
  IF recipe.t = "obj" THEN Lookup(recipe.x, field, Len(recipe.x)) ELSE Undefined

\* JavaScript truthiness
Truthy(v) ==
  CASE v.t \in {"undefined", "null"} -> FALSE
    [] v.t = "str" -> v.x # <<>>
    [] v.t = "num" -> v.x # <<"0">>
    [] v.t = "bool" -> v.x = <<"true">>
    [] OTHER -> TRUE

IsArray(v) == v.t = "arr"

RECURSIVE Join(_, _)
Join(names, sep) ==
  IF names = <<>> THEN <<>>
  ELSE IF Len(names) = 1 THEN names
  ELSE <<Head(names), sep>> \o Join(Tail(names), sep)

requiredFields ==
  <<"name", "titleVariations", "servings", "prepTime", "cookTime", "ingredients", "instructions">>

missingFields_firstOnly(recipe) ==
  LET all == SelectSeq(requiredFields, LAMBDA field : ~Truthy(Get(recipe, field)))
  IN IF all = <<>> THEN all ELSE <<Head(all)>>

missingFields(recipe) == SelectSeq(requiredFields, LAMBDA field : ~Truthy(Get(recipe, field)))

InvalidPrefix == "Invalid recipe format: "
ParserDiagnostic == <<"Unexpected token in JSON">>
NullDiagnostic == <<"Cannot read properties of null (reading name)">>
MissingPrefix == "Missing required fields: "
NonEmptyArrayMsg(field) == <<field, " must be a non-empty array">>

\* a response; cleaned records that the completion went through the clean chain
Answer(status, error, body) ==
  [status |-> status, error |-> error, body |-> body, cleaned |-> FALSE]
Cleaned(a) == [a EXCEPT !.cleaned = TRUE]

\* the inner try/catch: clean, parse, check the fields, answer
HandleCompletion_genericMessage(text) ==
  LET p == JSONParse(clean(text))
      recipe == p.val
  IN Cleaned(
     IF ~p.ok \/ recipe.t = "null" \/ Len(missingFields(recipe)) > 0
        \/ \E f \in {"titleVariations", "ingredients", "instructions"} :
             ~IsArray(Get(recipe, f)) \/ Len(Get(recipe, f).x) = 0
     THEN Answer(500, <<InvalidPrefix>> \o FallbackMsg, Undefined)
     ELSE Answer(200, <<>>, recipe))

HandleCompletion_pickFields(text) ==
  LET p == JSONParse(clean(text))
      recipe == p.val
      missing == missingFields(recipe)
      bad(f) == ~IsArray(Get(recipe, f)) \/ Len(Get(recipe, f).x) = 0
      known(m) == \E i \in 1..Len(requiredFields) : m.k = <<requiredFields[i]>>
  IN Cleaned(
     IF ~p.ok THEN Answer(500, <<InvalidPrefix>> \o ParserDiagnostic, Undefined)
     ELSE IF recipe.t = "null" THEN Answer(500, <<InvalidPrefix>> \o NullDiagnostic, Undefined)
     ELSE IF Len(missing) > 0
     THEN Answer(500, <<InvalidPrefix, MissingPrefix>> \o Join(missing, ", "), Undefined)
     ELSE IF bad("titleVariations")
     THEN Answer(500, <<InvalidPrefix>> \o NonEmptyArrayMsg("titleVariations"), Undefined)
     ELSE IF bad("ingredients")
     THEN Answer(500, <<InvalidPrefix>> \o NonEmptyArrayMsg("ingredients"), Undefined)
     ELSE IF bad("instructions")
     THEN Answer(500, <<InvalidPrefix>> \o NonEmptyArrayMsg("instructions"), Undefined)
     ELSE Answer(200, <<>>, JObj(SelectSeq(recipe.x, known))))

HandleCompletion_skipIngredients(text) ==
  LET p == JSONParse(clean(text))
      recipe == p.val
      missing == missingFields(recipe)
      bad(f) == ~IsArray(Get(recipe, f)) \/ Len(Get(recipe, f).x) = 0
  IN Cleaned(
     IF ~p.ok THEN Answer(500, <<InvalidPrefix>> \o ParserDiagnostic, Undefined)
     ELSE IF recipe.t = "null" THEN Answer(500, <<InvalidPrefix>> \o NullDiagnostic, Undefined)
     ELSE IF Len(missing) > 0
     THEN Answer(500, <<InvalidPrefix, MissingPrefix>> \o Join(missing, ", "), Undefined)
     ELSE IF bad("titleVariations")
     THEN Answer(500, <<InvalidPrefix>> \o NonEmptyArrayMsg("titleVariations"), Undefined)
     ELSE IF bad("instructions")
     THEN Answer(500, <<InvalidPrefix>> \o NonEmptyArrayMsg("instructions"), Undefined)
     ELSE Answer(200, <<>>, recipe))

HandleCompletion(text) ==
  LET p == JSONParse(clean(text))
      recipe == p.val
      missing == missingFields(recipe)
      bad(f) == ~IsArray(Get(recipe, f)) \/ Len(Get(recipe, f).x) = 0
  IN Cleaned(
     IF ~p.ok THEN Answer(500, <<InvalidPrefix>> \o ParserDiagnostic, Undefined)
     ELSE IF recipe.t = "null" THEN Answer(500, <<InvalidPrefix>> \o NullDiagnostic, Undefined)
     ELSE IF Len(missing) > 0
     THEN Answer(500, <<InvalidPrefix, MissingPrefix>> \o Join(missing, ", "), Undefined)
     ELSE IF bad("titleVariations")
     THEN Answer(500, <<InvalidPrefix>> \o NonEmptyArrayMsg("titleVariations"), Undefined)
     ELSE IF bad("ingredients")
     THEN Answer(500, <<InvalidPrefix>> \o NonEmptyArrayMsg("ingredients"), Undefined)
     ELSE IF bad("instructions")
     THEN Answer(500, <<InvalidPrefix>> \o NonEmptyArrayMsg("instructions"), Undefined)
     ELSE Answer(200, <<>>, recipe))

(***************************************************************************)
(* The minimal handler: no rate limit, no input validation, six fields in  *)
(* the prompt, and the completion cleaned, parsed and returned.            *)
(***************************************************************************)
MinimalFailMsg == <<"Failed to generate recipe. Please try again.">>

RemoveFencesMinimal_openingOnly(s) ==
  IF StartsWith(s, 1, Fence \o <<JSONWORD, NL>>) THEN SubSeq(s, 6, Len(s)) ELSE s

\* text.replace(/^```json\n|```$/g, ""): the opening fence with its newline at
\* the very start, and three backticks at the very end
RemoveFencesMinimal(s) ==
  LET rest == IF StartsWith(s, 1, Fence \o <<JSONWORD, NL>>) THEN SubSeq(s, 6, Len(s)) ELSE s
      n == Len(rest)
  IN IF n >= 3 /\ SubSeq(rest, n - 2, n) = Fence THEN SubSeq(rest, 1, n - 3) ELSE rest

cleanMinimal(text) == TrimText(RemoveFencesMinimal(text))

\* whatever JSON.parse yields is the response; any throw is the one catch
HandleCompletionMinimal(text) ==
  LET p == JSONParse(cleanMinimal(text))
  IN Cleaned(IF ~p.ok THEN Answer(500, MinimalFailMsg, Undefined) ELSE Answer(200, <<>>, p.val))

(***************************************************************************)
(* Inputs: request payloads, completion texts, upstream failures.          *)
(***************************************************************************)
\* what req.json() yields: "malformed" rejects, "null" is the JSON null,
\* "object" is any other value, with the two fields the handler destructures
Body(kind, ingredients, steps) == [kind |-> kind, ingredients |-> ingredients, steps |-> steps]
NoBody == Body("none", NonStr("undefined"), NonStr("undefined"))

Leads == {0, 1, MAX_TOKENS}
Cores == {0, 1, MAX_TOKENS - 2, MAX_TOKENS - 1, MAX_TOKENS}
Trails == {0, 1}
StrVals == {v \in {Str(l, c, t) : l \in Leads, c \in Cores, t \in Trails} : v.core = 0 => v.trail = 0}
Vals == StrVals \cup {NonStr("undefined"), NonStr("null"), NonStr("number"), NonStr("array")}

AllBodies ==
  {Body("object", i, s) : i \in Vals, s \in Vals}
    \cup {Body("malformed", NonStr("undefined"), NonStr("undefined")),
          Body("null", NonStr("undefined"), NonStr("undefined"))}

GoodBody == Body("object", Str(0, 1, 0), Str(0, 1, 0))
SmallBodies == {GoodBody, Body("object", Str(1, 0, 0), Str(0, 1, 0))}

GenErrors == {Error(<<"fetch failed">>), NonError}
SmallErrors == {Error(<<"fetch failed">>)}

S(w) == <<QT, w, QT>>
KV(k, v) == S(k) \o <<CO>> \o v

RECURSIVE JoinText(_, _)
JoinText(texts, sep) ==
  IF texts = <<>> THEN <<>>
  ELSE IF Len(texts) = 1 THEN texts[1]
  ELSE texts[1] \o <<sep>> \o JoinText(Tail(texts), sep)

Arr(items) == <<LK>> \o JoinText(items, CM) \o <<RK>>
Obj(members) == <<LB>> \o JoinText(members, CM) \o <<RB>>

ArrayFields == {"titleVariations", "ingredients", "instructions"}
Variants == {"good", "absent", "emptyString", "emptyArray", "null", "zero", "false", "swapped"}

\* the text of one member of a recipe object, <<>> when the field is left out
FieldText(f, variant) ==
  CASE variant = "good" -> KV(f, IF f \in ArrayFields THEN Arr(<<S("x")>>) ELSE S("X"))
    [] variant = "emptyString" -> KV(f, <<QT, QT>>)
    [] variant = "emptyArray" -> KV(f, Arr(<<>>))
    [] variant = "null" -> KV(f, <<"null">>)
    [] variant = "zero" -> KV(f, <<"0">>)
    [] variant = "false" -> KV(f, <<"false">>)
    [] variant = "swapped" -> KV(f, IF f \in ArrayFields THEN S("X") ELSE Arr(<<S("x")>>))
    [] OTHER -> <<>>

RecipeText(variantOf) ==
  Obj(SelectSeq([i \in 1..Len(requiredFields) |-> FieldText(requiredFields[i], variantOf[requiredFields[i]])],
                LAMBDA m : m # <<>>))

AllGood == [f \in {requiredFields[i] : i \in 1..Len(requiredFields)} |-> "good"]
FullRecipe == RecipeText(AllGood)
Pancakes == RecipeText([AllGood EXCEPT !["titleVariations"] = "absent"])
NameAndServings ==
  RecipeText([f \in DOMAIN AllGood |-> IF f \in {"name", "servings"} THEN "good" ELSE "absent"])
\* six fields, no titleVariations, ingredients the empty list
EmptyIngredients ==
  RecipeText([AllGood EXCEPT !["titleVariations"] = "absent", !["ingredients"] = "emptyArray"])
\* one field left out and another one there with a falsy value
TwoFieldTexts ==
  {RecipeText([AllGood EXCEPT ![f] = "absent", ![g] = v]) :
     f \in DOMAIN AllGood, g \in {"name", "servings", "instructions"},
     v \in {"emptyString", "zero", "null", "false", "emptyArray"}}
\* a field the schema does not have, and a name given twice
WithNotes == <<LB>> \o KV("notes", S("X")) \o <<CM>> \o Tail(FullRecipe)
NameTwice == <<LB>> \o KV("name", <<QT, QT>>) \o <<CM>> \o Tail(FullRecipe)
NameTwiceEmpty == SubSeq(FullRecipe, 1, Len(FullRecipe) - 1) \o <<CM>> \o KV("name", <<QT, QT>>) \o <<RB>>

\* the completion of the end-to-end scenario, without its fences, and the
\* object literal it denotes
Q(atoms) == <<QT>> \o atoms \o <<QT>>
SimplePancakes ==
  Obj(<<KV("name", Q(<<"Simple", SP, "Pancakes">>)),
        KV("servings", S("2")),
        KV("prepTime", S("5")),
        KV("cookTime", S("15")),
        KV("ingredients", Arr(<<Q(<<"2", SP, "eggs">>), Q(<<"1", SP, "cup", SP, "flour">>)>>)),
        KV("instructions", Arr(<<Q(<<"Mix", SP, "ingredients">>), Q(<<"Bake", SP, "until", SP, "golden">>)>>))>>)
SimplePancakesValue ==
  JObj(<<Member(<<"name">>, JStr(<<"Simple", SP, "Pancakes">>)),
         Member(<<"servings">>, JStr(<<"2">>)),
         Member(<<"prepTime">>, JStr(<<"5">>)),
         Member(<<"cookTime">>, JStr(<<"15">>)),
         Member(<<"ingredients">>, JArr(<<JStr(<<"2", SP, "eggs">>), JStr(<<"1", SP, "cup", SP, "flour">>)>>)),
         Member(<<"instructions">>, JArr(<<JStr(<<"Mix", SP, "ingredients">>),
                                           JStr(<<"Bake", SP, "until", SP, "golden">>)>>))>>)
\* the same with title variations put after the name
TitledPancakes ==
  SubSeq(SimplePancakes, 1, 11) \o KV("titleVariations", Arr(<<Q(<<"Easy", SP, "Pancakes">>)>>))
    \o <<CM>> \o SubSeq(SimplePancakes, 12, Len(SimplePancakes))
TitledPancakesValue ==
  JObj(<<SimplePancakesValue.x[1],
         Member(<<"titleVariations">>, JArr(<<JStr(<<"Easy", SP, "Pancakes">>)>>))>>
       \o Tail(SimplePancakesValue.x))

Fenced(t) == Fence \o <<JSONWORD, NL>> \o t \o <<NL>> \o Fence
FencedPlain(t) == Fence \o <<NL>> \o t \o <<NL>> \o Fence
Padded(t) == <<NL, SP>> \o t \o <<SP, NL>>
WithProse(t) == <<"Here is your recipe", CO, NL>> \o Fenced(t)

JsonTexts ==
  {RecipeText([AllGood EXCEPT ![f] = v]) : f \in DOMAIN AllGood, v \in Variants}
    \cup TwoFieldTexts
    \cup {EmptyIngredients, WithNotes, NameTwice, NameTwiceEmpty, SimplePancakes, TitledPancakes}
    \cup {NameAndServings, <<"null">>, <<"5">>, Arr(<<S("x")>>), S("X"), <<>>, <<"Sorry">>,
          <<LB>>, <<LB>> \o KV("name", S("X")) \o <<CM, RB>>, FullRecipe \o FullRecipe}

AllTexts ==
  JsonTexts \cup {Fenced(t) : t \in JsonTexts} \cup {FencedPlain(t) : t \in JsonTexts}
    \cup {Padded(t) : t \in JsonTexts} \cup {WithProse(FullRecipe)}

SmallTexts == {Fenced(FullRecipe)}

\* JSON.stringify: no white space, members in the order of the object, and in
\* string literals the double quote, the newline and the tab escaped
Escape(c) ==
  CASE c = NL -> ESC_NL
    [] c = TAB -> ESC_TAB
    [] c = QT -> ESC_QT
    [] OTHER -> c
Quote(atoms) == <<QT>> \o [n \in 1..Len(atoms) |-> Escape(atoms[n])] \o <<QT>>

RECURSIVE Stringify(_)
Stringify(v) ==
  CASE v.t = "str" -> Quote(v.x)
    [] v.t = "arr" -> Arr([n \in 1..Len(v.x) |-> Stringify(v.x[n])])
    [] v.t = "obj" -> Obj([n \in 1..Len(v.x) |-> Quote(v.x[n].k) \o <<CO>> \o Stringify(v.x[n].v)])
    [] v.t = "null" -> <<"null">>
    [] OTHER -> v.x

\* recipes with all seven fields and non-empty lists, their strings drawn from
\* texts with the characters the sanitiser and the parser look at
StringContents ==
  {<<"X">>, <<>>, <<"1", SP, "cup">>, <<SP, "X", SP>>, <<"a", NL, "b">>, <<QT, "X", QT>>,
   <<LB, "X", RB>>, <<RB, SP>>, <<BT, "X", BT>>, <<"in", SP, BT, BT, BT, "X", BT, BT, BT>>,
   <<BT, BT, BT, JSONWORD>>}
RecipeValue(name, item) ==
  JObj(<<Member(<<"name">>, JStr(name)),
         Member(<<"titleVariations">>, JArr(<<JStr(<<"X">>)>>)),
         Member(<<"servings">>, JStr(<<"2">>)),
         Member(<<"prepTime">>, JStr(<<"5">>)),
         Member(<<"cookTime">>, JStr(<<"15">>)),
         Member(<<"ingredients">>, JArr(<<JStr(<<"X">>), JStr(item)>>)),
         Member(<<"instructions">>, JArr(<<JStr(item)>>))>>)
RoundTripRecipes == {RecipeValue(name, item) : name \in StringContents, item \in StringContents}
RoundTripTexts ==
  {Fenced(Stringify(v)) : v \in RoundTripRecipes} \cup {FencedPlain(Stringify(v)) : v \in RoundTripRecipes}

\* every text of up to MaxShortText atoms, and every text of backticks and
\* newlines of up to MaxFenceText atoms
TextsOver(atoms, n) == UNION {[1..k -> atoms] : k \in 0..n}
ShortTexts ==
  TextsOver({BT, NL, JSONWORD, LB, RB, SP}, MaxShortText) \cup TextsOver({BT, NL}, MaxFenceText)

(***************************************************************************)
(* State.                                                                  *)
(***************************************************************************)
VARIABLES
  now,         \* Date.now()
  ipRequests,  \* the rate-limit Map
  pc,          \* per request slot: idle, or the await the handler is suspended at
  hdr,         \* per request slot: the x-forwarded-for header of the request
  tr,          \* per request slot: what the handler has done for the request so far
  resp,        \* the response sent last, with the trace of its request, until a request arrives
  calls,       \* per key: start and number of isRateLimited calls since a call found no entry
  grants,      \* per key: start and number of allowed calls in the hour since start
  run,         \* a marked run of requests of one key: first request's time, length
  client,      \* the page: the component's state and what it keeps in localStorage
  net          \* per call of onSubmit: where its fetch stands

serverVars == <<now, ipRequests, pc, hdr, tr, resp, calls, grants, run>>
clientVars == <<client, net>>
vars == <<now, ipRequests, pc, hdr, tr, resp, calls, grants, run, client, net>>

\* validated: validateInput was called; genCalls: calls of generateContent;
\* upstream: how that call ended; req, text: the payload and the completion read;
\* minimal: the request went to the minimal handler; aborted: the client
\* aborted the request while the handler was running
NoTrace ==
  [validated |-> FALSE, genCalls |-> 0, cleaned |-> FALSE, upstream |-> "none",
   req |-> NoBody, text |-> <<>>, minimal |-> FALSE, aborted |-> FALSE]
NoResp == [status |-> 0, error |-> <<>>, body |-> Undefined, trace |-> NoTrace]
Response(a, t) ==
  [status |-> a.status, error |-> a.error, body |-> a.body,
   trace |-> [t EXCEPT !.cleaned = a.cleaned]]
NoCount == [start |-> 0, n |-> 0]
NoRun == [key |-> "", start |-> 0, n |-> 0, fresh |-> FALSE]

\* the page's messages
StoppedMsg == <<"Generation stopped">>
ClientFailMsg == <<"Failed to generate recipe. Please try again.">>

\* useState(null) for recipe and error, useState(false), useState([]); a null
\* error is the empty message, a null controller is 0, and a controller is
\* known by the number of the call of onSubmit that made it; keyHistory is the
\* recipeHistory of the onSubmit that handleKeyDown holds; storedRecipe and
\* storedHistory are the two recipe items of localStorage; deleted, not in the
\* program, is the set of the entries deleteRecipe has removed
Fetches == 1..MaxFetches
\* a recipe with its id; by, the call of onSubmit that made it, is not in the
\* program and tells apart entries with one id
NoRecipe == [id |-> -1, data |-> Undefined, by |-> 0]
SavedRecipe(data, t, k) == [id |-> t, data |-> data, by |-> k]
InitialClient ==
  [isLoading |-> FALSE, recipe |-> NoRecipe, error |-> <<>>, controller |-> 0,
   recipeHistory |-> <<>>, keyHistory |-> <<>>,
   storedRecipe |-> NoRecipe, storedHistory |-> <<>>, deleted |-> {}]

\* st: unsent, sent (fetch called), served (the handler has the request),
\* rejected (aborted, the catch block not yet run), settled; slot: the handler's
\* slot; recipeHistory: the history the call of onSubmit closed over; end: how
\* the call ended; shown: the error it set
NoFetch ==
  [st |-> "unsent", slot |-> 0, recipeHistory |-> <<>>, end |-> "none", shown |-> <<>>]

Init ==
  /\ now = 0
  /\ ipRequests = MapDelete(<<>>, {})
  /\ pc = [r \in Reqs |-> "idle"]
  /\ hdr = [r \in Reqs |-> NoHeader]
  /\ tr = [r \in Reqs |-> NoTrace]
  /\ resp = NoResp
  /\ calls = [k \in Keys |-> NoCount]
  /\ grants = [k \in Keys |-> NoCount]
  /\ run = NoRun
  /\ client = InitialClient
  /\ net = [k \in Fetches |-> NoFetch]

\* the response leaves; the slot is free for the next request
Send(r, a, t) ==
  /\ resp' = Response(a, t)
  /\ pc' = [pc EXCEPT ![r] = "idle"]
  /\ tr' = [tr EXCEPT ![r] = NoTrace]

MessageOf_noFallback(e) == e.message

\* the error a catch block reports: error instanceof Error ? error.message : fallback
MessageOf(e) == IF e.isError THEN e.message ELSE FallbackMsg

(***************************************************************************)
(* Actions.                                                                *)
(***************************************************************************)
\* time passes: one millisecond after the start of a window, then to the start
\* of the next one, so that ages just below, at and just above the window occur
InstantIndex(t) == 2 * (t \div RATE_LIMIT_WINDOW) + (t % RATE_LIMIT_WINDOW)

Tick ==
  /\ InstantIndex(now) < MaxInstant
  /\ now' = now + (IF now % RATE_LIMIT_WINDOW = 0 THEN 1 ELSE RATE_LIMIT_WINDOW - 1)
  /\ UNCHANGED <<ipRequests, pc, hdr, tr, resp, calls, grants, run>>

\* the setInterval callback
Sweep ==
  /\ now >= RATE_LIMIT_WINDOW
  /\ ipRequests' = MapDelete(ipRequests, Expired(ipRequests, now))
  /\ UNCHANGED <<now, pc, hdr, tr, resp, calls, grants, run>>

Admitted(h) ==
  LET k == ClientKey(h)
  IN IF k = HeavyKey \/ k \notin DOMAIN ipRequests THEN TRUE
     ELSE \/ now - ipRequests[k].timestamp > RATE_LIMIT_WINDOW
          \/ ipRequests[k].count < MaxLight

\* a request arrives; POST runs to `await headers()`
Start(r, h) ==
  /\ pc[r] = "idle"
  /\ Admitted(h)
  /\ pc' = [pc EXCEPT ![r] = "headers"]
  /\ hdr' = [hdr EXCEPT ![r] = h]
  /\ resp' = NoResp
  /\ UNCHANGED <<now, ipRequests, tr, calls, grants, run>>

CallsAfter(c, hadEntry, t) ==
  IF ~hadEntry THEN [start |-> t, n |-> 1]
  ELSE IF c.n = 0 THEN c
  ELSE IF t - c.start > RATE_LIMIT_WINDOW THEN NoCount
  ELSE [c EXCEPT !.n = Min(c.n + 1, MAX_REQUESTS_PER_IP + 2)]

GrantsAfter(g, limited, t) ==
  IF limited THEN g
  ELSE IF g.n = 0 \/ t - g.start > RATE_LIMIT_WINDOW THEN [start |-> t, n |-> 1]
  ELSE [g EXCEPT !.n = g.n + 1]

\* headers() resolves; the key is read and the rate limit checked, up to `await req.json()`
RateCheckCore(r) ==
  /\ pc[r] = "headers"
  /\ LET ip == ClientKey(hdr[r])
         res == isRateLimited(ipRequests, ip, now)
     IN /\ ipRequests' = res.map
        /\ calls' = [calls EXCEPT ![ip] = CallsAfter(@, ip \in DOMAIN ipRequests, now)]
        /\ grants' = [grants EXCEPT ![ip] = GrantsAfter(@, res.limited, now)]
        /\ IF res.limited
           THEN Send(r, Answer(429, RateLimitMsg, Undefined), tr[r])
           ELSE /\ pc' = [pc EXCEPT ![r] = "json"]
                /\ UNCHANGED <<tr, resp>>
  /\ hdr' = [hdr EXCEPT ![r] = NoHeader]
  /\ UNCHANGED now

RateCheck(r) == RateCheckCore(r) /\ UNCHANGED run

\* the same step, with the request counted in a run of requests of its key; any
\* request may be taken as the first of a run
RunAfter(u, mark, ip, hadLiveEntry, t) ==
  IF mark THEN [key |-> ip, start |-> t, n |-> 1, fresh |-> ~hadLiveEntry]
  ELSE IF u.n = 0 \/ u.key # ip THEN u
  ELSE IF t - u.start > RATE_LIMIT_WINDOW THEN NoRun
  ELSE [u EXCEPT !.n = Min(u.n + 1, MAX_REQUESTS_PER_IP + 2)]

RateCheckMarked(r) ==
  /\ RateCheckCore(r)
  /\ \E mark \in BOOLEAN :
       LET ip == ClientKey(hdr[r])
           live == ip \in DOMAIN ipRequests
                     /\ now - ipRequests[ip].timestamp <= RATE_LIMIT_WINDOW
       IN run' = RunAfter(run, mark, ip, live, now)

\* what the handler does with the payload: lines 207-213 and the outer catch
AfterJson(b) ==
  IF b.kind = "malformed"
  THEN [done |-> TRUE, validated |-> FALSE,
        answer |-> Answer(500, <<"Unexpected token in JSON">>, Undefined)]
  ELSE IF b.kind = "null"
  THEN [done |-> TRUE, validated |-> FALSE,
        answer |-> Answer(500, <<"Cannot destructure property ingredients of null">>, Undefined)]
  ELSE LET v == validateInput(b.ingredients, b.steps)
       IN IF v.threw
          THEN [done |-> TRUE, validated |-> TRUE,
                answer |-> Answer(500, MessageOf(v.error), Undefined)]
          ELSE IF v.value # <<>>
          THEN [done |-> TRUE, validated |-> TRUE, answer |-> Answer(400, v.value, Undefined)]
          ELSE [done |-> FALSE, validated |-> TRUE, answer |-> Answer(0, <<>>, Undefined)]

\* req.json() settles; the input is validated, the prompt built and
\* generateContent called, up to its await
ReadBody(r, bodies) ==
  /\ pc[r] = "json"
  /\ \E b \in bodies :
       LET out == AfterJson(b)
           t == [tr[r] EXCEPT !.validated = out.validated, !.req = b]
       IN IF out.done
          THEN Send(r, out.answer, t)
          ELSE /\ pc' = [pc EXCEPT ![r] = "generate"]
               /\ tr' = [tr EXCEPT ![r] = [t EXCEPT !.genCalls = @ + 1]]
               /\ UNCHANGED resp
  /\ UNCHANGED <<now, ipRequests, hdr, calls, grants, run>>

\* generateContent resolves with a completion text
GenReturn(r, texts) ==
  /\ pc[r] = "generate"
  /\ \E text \in texts :
       Send(r, HandleCompletion(text), [tr[r] EXCEPT !.upstream = "ok", !.text = text])
  /\ UNCHANGED <<now, ipRequests, hdr, calls, grants, run>>

AfterFailure_asEmptyText(e) == HandleCompletion(<<>>)

\* the outer catch
AfterFailure(e) == Answer(500, MessageOf(e), Undefined)

GenFail_retryOnce(r, errors) ==
  /\ pc[r] = "generate"
  /\ \E e \in errors :
       IF tr[r].genCalls < 2
       THEN /\ tr' = [tr EXCEPT ![r].genCalls = @ + 1]
            /\ UNCHANGED <<pc, resp>>
       ELSE Send(r, AfterFailure(e), [tr[r] EXCEPT !.upstream = "failed"])
  /\ UNCHANGED <<now, ipRequests, hdr, calls, grants, run>>

\* generateContent rejects, or response.text() throws: the outer catch
GenFail(r, errors) ==
  /\ pc[r] = "generate"
  /\ \E e \in errors : Send(r, AfterFailure(e), [tr[r] EXCEPT !.upstream = "failed"])
  /\ UNCHANGED <<now, ipRequests, hdr, calls, grants, run>>

(***************************************************************************)
(* The minimal handler's steps.                                            *)
(***************************************************************************)
\* a request arrives; POST runs to `await req.json()`
StartMinimal(r) ==
  /\ pc[r] = "idle"
  /\ pc' = [pc EXCEPT ![r] = "jsonMinimal"]
  /\ tr' = [tr EXCEPT ![r] = [NoTrace EXCEPT !.minimal = TRUE]]
  /\ resp' = NoResp
  /\ UNCHANGED <<now, ipRequests, hdr, calls, grants, run>>

\* req.json() settles: a rejection or a payload that cannot be destructured
\* goes to the catch; any other payload goes into the prompt as it is
ReadBodyMinimal(r, bodies) ==
  /\ pc[r] = "jsonMinimal"
  /\ \E b \in bodies :
       LET t == [tr[r] EXCEPT !.req = b]
       IN IF b.kind \in {"malformed", "null"}
          THEN Send(r, Answer(500, MinimalFailMsg, Undefined), t)
          ELSE /\ pc' = [pc EXCEPT ![r] = "generateMinimal"]
               /\ tr' = [tr EXCEPT ![r] = [t EXCEPT !.genCalls = @ + 1]]
               /\ UNCHANGED resp
  /\ UNCHANGED <<now, ipRequests, hdr, calls, grants, run>>

GenReturnMinimal(r, texts) ==
  /\ pc[r] = "generateMinimal"
  /\ \E text \in texts :
       Send(r, HandleCompletionMinimal(text), [tr[r] EXCEPT !.upstream = "ok", !.text = text])
  /\ UNCHANGED <<now, ipRequests, hdr, calls, grants, run>>

GenFailMinimal(r, errors) ==
  /\ pc[r] = "generateMinimal"
  /\ \E e \in errors :
       Send(r, Answer(500, MinimalFailMsg, Undefined), [tr[r] EXCEPT !.upstream = "failed"])
  /\ UNCHANGED <<now, ipRequests, hdr, calls, grants, run>>

(***************************************************************************)
(* The page's steps.                                                       *)
(***************************************************************************)
\* no catch block of an aborted fetch is waiting: the reactions of a rejected
\* promise run before the next event is handled
Quiescent == \A k \in Fetches : net[k].st # "rejected"

\* the state after a handler has run and the page has rendered: handleKeyDown
\* is made anew, with the onSubmit of that render and the recipeHistory it
\* closes over, only when isLoading has changed (its dependencies are form
\* and isLoading)
Rendered(c) ==
  [c EXCEPT !.keyHistory = IF c.isLoading # client.isLoading
                           THEN c.recipeHistory ELSE client.keyHistory]

\* the effect on recipe: a recipe that is not null is written to localStorage
SaveEffect(c) ==
  IF c.recipe # NoRecipe THEN [c EXCEPT !.storedRecipe = c.recipe] ELSE c

\* the form is submitted, by the button (the onSubmit of the last render) or by
\* the key binding (the onSubmit handleKeyDown holds); both are off while
\* isLoading. onSubmit runs to its await fetch
onSubmit(k, byKey) ==
  /\ Quiescent
  /\ ~client.isLoading
  /\ net[k].st = "unsent"
  /\ \A j \in Fetches : j < k => net[j].st # "unsent"
  /\ client' = Rendered([client EXCEPT !.isLoading = TRUE, !.error = <<>>, !.controller = k])
  /\ net' = [net EXCEPT ![k] =
               [NoFetch EXCEPT !.st = "sent",
                               !.recipeHistory = IF byKey THEN client.keyHistory
                                                 ELSE client.recipeHistory]]
  /\ UNCHANGED serverVars

\* the request of fetch k reaches the handler
Accept(k, r, h) ==
  /\ net[k].st = "sent"
  /\ Start(r, h)
  /\ net' = [net EXCEPT ![k].st = "served", ![k].slot = r]
  /\ UNCHANGED client

\* data.error of the parsed response: the error of an error response, the
\* member named error of a recipe
DataError(a) == IF a.status = 200 THEN Truthy(Get(a.body, "error")) ELSE a.error # <<>>

\* the response arrives: onSubmit goes on after its awaits, to the end of its
\* finally block; the effect on recipe saves the new recipe
Receive(k) ==
  /\ net[k].st = "served"
  /\ pc[net[k].slot] = "idle"
  /\ resp.status # 0
  /\ IF DataError(resp)
     THEN /\ client' = Rendered([client EXCEPT !.error = resp.error,
                                               !.isLoading = FALSE, !.controller = 0])
          /\ net' = [net EXCEPT ![k].st = "settled", ![k].end = "errorResponse",
                                ![k].shown = resp.error]
     ELSE LET newSavedRecipe == SavedRecipe(resp.body, now, k)
              updatedHistory == <<newSavedRecipe>> \o net[k].recipeHistory
          IN /\ client' = Rendered([client EXCEPT !.recipeHistory = updatedHistory,
                                                  !.storedHistory = updatedHistory,
                                                  !.recipe = newSavedRecipe,
                                                  !.storedRecipe = newSavedRecipe,
                                                  !.isLoading = FALSE, !.controller = 0])
             /\ net' = [net EXCEPT ![k].st = "settled", ![k].end = "ok"]
  /\ UNCHANGED serverVars

FetchFails_noFinally(k) ==
  /\ net[k].st \in {"sent", "served"}
  /\ client' = Rendered([client EXCEPT !.error = ClientFailMsg])
  /\ net' = [net EXCEPT ![k].st = "settled", ![k].end = "network", ![k].shown = ClientFailMsg]
  /\ UNCHANGED serverVars

\* fetch rejects for a reason other than an abort: the catch block and finally
FetchFails(k) ==
  /\ net[k].st \in {"sent", "served"}
  /\ client' = Rendered([client EXCEPT !.error = ClientFailMsg,
                                       !.isLoading = FALSE, !.controller = 0])
  /\ net' = [net EXCEPT ![k].st = "settled", ![k].end = "network", ![k].shown = ClientFailMsg]
  /\ UNCHANGED serverVars

handleStop_noAbort ==
  /\ Quiescent
  /\ client.isLoading
  /\ client.controller # 0
  /\ client' = Rendered([client EXCEPT !.controller = 0, !.isLoading = FALSE])
  /\ UNCHANGED <<serverVars, net>>

\* the Stop button (shown while isLoading): controller.abort() rejects the
\* fetch and closes the connection; the handler, if it has the request, is
\* not told and goes on
handleStop ==
  /\ Quiescent
  /\ client.isLoading
  /\ client.controller # 0
  /\ LET k == client.controller
     IN /\ net' = IF net[k].st \in {"sent", "served"}
                  THEN [net EXCEPT ![k].st = "rejected"] ELSE net
        /\ tr' = IF net[k].st = "served" /\ pc[net[k].slot] # "idle"
                 THEN [tr EXCEPT ![net[k].slot].aborted = TRUE] ELSE tr
  /\ client' = Rendered([client EXCEPT !.controller = 0, !.isLoading = FALSE])
  /\ UNCHANGED <<now, ipRequests, pc, hdr, resp, calls, grants, run>>

\* the catch block of an aborted fetch (err.name is AbortError), and finally
AbortContinuation(k) ==
  /\ net[k].st = "rejected"
  /\ client' = Rendered([client EXCEPT !.error = StoppedMsg,
                                       !.isLoading = FALSE, !.controller = 0])
  /\ net' = [net EXCEPT ![k].st = "settled", ![k].end = "abort", ![k].shown = StoppedMsg]
  /\ UNCHANGED serverVars

\* the Clear button (there while not isLoading) and New Recipe in the sidebar
\* (there always): the form is reset, recipe and error are set to null and the
\* form data is removed from localStorage; the recipe saved there stays
handleClear ==
  /\ Quiescent
  /\ client.recipe # NoRecipe \/ client.error # <<>>
  /\ client' = Rendered(SaveEffect([client EXCEPT !.recipe = NoRecipe, !.error = <<>>]))
  /\ UNCHANGED <<serverVars, net>>

\* an entry of the history is clicked in the sidebar
loadRecipe(i) ==
  /\ Quiescent
  /\ i \in 1..Len(client.recipeHistory)
  /\ client.recipe # client.recipeHistory[i]
  /\ client' = Rendered(SaveEffect([client EXCEPT !.recipe = client.recipeHistory[i]]))
  /\ UNCHANGED <<serverVars, net>>

\* recipeHistory.filter((r) => r.id !== id)
WithoutId(history, id) == SelectSeq(history, LAMBDA r : r.id # id)

\* the delete button of an entry of the history
deleteRecipe(i) ==
  /\ Quiescent
  /\ i \in 1..Len(client.recipeHistory)
  /\ LET id == client.recipeHistory[i].id
         updatedHistory == WithoutId(client.recipeHistory, id)
     IN client' = Rendered(SaveEffect(
                    [client EXCEPT !.recipeHistory = updatedHistory,
                                   !.storedHistory = updatedHistory,
                                   !.recipe = IF client.recipe # NoRecipe /\ client.recipe.id = id
                                              THEN NoRecipe ELSE @,
                                   !.deleted = @ \cup {client.recipeHistory[n].by :
                                                         n \in {m \in 1..Len(client.recipeHistory) :
                                                                  client.recipeHistory[m].id = id}}]))
  /\ UNCHANGED <<serverVars, net>>

\* { ...r, name: value }
WithName(r, value) ==
  [r EXCEPT !.data = IF @.t = "obj" THEN JObj(PutMember(@.x, <<"name">>, JStr(value))) ELSE @]

\* the titles the select offers besides the name: recipe.titleVariations
Titles(r) ==
  LET tv == Get(r.data, "titleVariations")
  IN IF IsArray(tv) THEN {tv.x[n].x : n \in {m \in 1..Len(tv.x) : tv.x[m].t = "str"}} ELSE {}

\* the title select (there while a recipe is shown and not isLoading)
onValueChange(value) ==
  /\ Quiescent
  /\ client.recipe # NoRecipe
  /\ ~client.isLoading
  /\ value \in Titles(client.recipe)
  /\ Get(client.recipe.data, "name") # JStr(value)
  /\ LET updatedRecipe == WithName(client.recipe, value)
         updatedHistory ==
           [n \in 1..Len(client.recipeHistory) |->
              IF client.recipeHistory[n].id = client.recipe.id
              THEN WithName(client.recipeHistory[n], value) ELSE client.recipeHistory[n]]
     IN client' = Rendered(SaveEffect([client EXCEPT !.recipe = updatedRecipe,
                                                     !.recipeHistory = updatedHistory,
                                                     !.storedHistory = updatedHistory]))
  /\ UNCHANGED <<serverVars, net>>

\* the page is loaded again: the component starts from its initial state, the
\* mount effects read the recipe and the history from localStorage, and the
\* fetches of the page that was left never settle
Mount ==
  /\ Quiescent
  /\ client' = [InitialClient EXCEPT !.recipe = client.storedRecipe,
                                     !.recipeHistory = client.storedHistory,
                                     !.storedRecipe = client.storedRecipe,
                                     !.storedHistory = client.storedHistory,
                                     !.deleted = client.deleted]
  /\ client' # client
  /\ net' = [k \in Fetches |->
               IF net[k].st \in {"sent", "served"}
               THEN [net[k] EXCEPT !.st = "settled", !.end = "unload"] ELSE net[k]]
  /\ UNCHANGED serverVars

(***************************************************************************)
(* Specifications.                                                         *)
(***************************************************************************)
\* concurrent requests of one client key against the clock and the sweep
Next ==
  \/ Tick /\ UNCHANGED clientVars
  \/ Sweep /\ UNCHANGED clientVars
  \/ \E r \in Reqs, h \in HeavyHeaders : Start(r, h) /\ UNCHANGED clientVars
  \/ \E r \in Reqs : RateCheck(r) /\ UNCHANGED clientVars
  \/ \E r \in Reqs : ReadBody(r, SmallBodies) /\ UNCHANGED clientVars
  \/ \E r \in Reqs : GenReturn(r, SmallTexts) /\ UNCHANGED clientVars
  \/ \E r \in Reqs : GenFail(r, SmallErrors) /\ UNCHANGED clientVars

Spec == Init /\ [][Next]_vars

\* one client sending its requests one after the other
NextSeq ==
  \/ Tick /\ UNCHANGED clientVars
  \/ Sweep /\ UNCHANGED clientVars
  \/ \E r \in SeqReqs, h \in Headers : Start(r, h) /\ UNCHANGED clientVars
  \/ \E r \in SeqReqs : RateCheck(r) /\ UNCHANGED clientVars
  \/ \E r \in SeqReqs : ReadBody(r, SmallBodies) /\ UNCHANGED clientVars
  \/ \E r \in SeqReqs : GenReturn(r, SmallTexts) /\ UNCHANGED clientVars
  \/ \E r \in SeqReqs : GenFail(r, SmallErrors) /\ UNCHANGED clientVars

SpecSeq == Init /\ [][NextSeq]_vars

\* the same, with runs of requests marked
NextRun ==
  \/ Tick /\ UNCHANGED clientVars
  \/ Sweep /\ UNCHANGED clientVars
  \/ \E r \in SeqReqs, h \in HeavyHeaders : Start(r, h) /\ UNCHANGED clientVars
  \/ \E r \in SeqReqs : RateCheckMarked(r) /\ UNCHANGED clientVars
  \/ \E r \in SeqReqs : ReadBody(r, SmallBodies) /\ UNCHANGED clientVars
  \/ \E r \in SeqReqs : GenReturn(r, SmallTexts) /\ UNCHANGED clientVars
  \/ \E r \in SeqReqs : GenFail(r, SmallErrors) /\ UNCHANGED clientVars

SpecRun == Init /\ [][NextRun]_vars

\* the handler on every payload
NextPayload ==
  \/ \E r \in SeqReqs, h \in Headers : Start(r, h) /\ UNCHANGED clientVars
  \/ \E r \in SeqReqs : RateCheck(r) /\ UNCHANGED clientVars
  \/ \E r \in SeqReqs : ReadBody(r, AllBodies) /\ UNCHANGED clientVars
  \/ \E r \in SeqReqs : GenReturn(r, SmallTexts) /\ UNCHANGED clientVars
  \/ \E r \in SeqReqs : GenFail(r, GenErrors) /\ UNCHANGED clientVars

SpecPayload == Init /\ [][NextPayload]_vars

\* the handler on every completion text
NextCompletion ==
  \/ \E r \in SeqReqs, h \in Headers : Start(r, h) /\ UNCHANGED clientVars
  \/ \E r \in SeqReqs : RateCheck(r) /\ UNCHANGED clientVars
  \/ \E r \in SeqReqs : ReadBody(r, SmallBodies) /\ UNCHANGED clientVars
  \/ \E r \in SeqReqs : GenReturn(r, AllTexts) /\ UNCHANGED clientVars
  \/ \E r \in SeqReqs : GenFail(r, GenErrors) /\ UNCHANGED clientVars

SpecCompletion == Init /\ [][NextCompletion]_vars

\* the rate-limited handler and the minimal handler on every completion text
VariantBodies == SmallBodies \cup {Body("malformed", NonStr("undefined"), NonStr("undefined")),
                                   Body("null", NonStr("undefined"), NonStr("undefined")),
                                   Body("object", NonStr("undefined"), Str(0, 1, 0))}

NextVariants ==
  \/ \E r \in SeqReqs, h \in HeavyHeaders : Start(r, h) /\ UNCHANGED clientVars
  \/ \E r \in SeqReqs : RateCheck(r) /\ UNCHANGED clientVars
  \/ \E r \in SeqReqs : ReadBody(r, SmallBodies) /\ UNCHANGED clientVars
  \/ \E r \in SeqReqs : GenReturn(r, AllTexts) /\ UNCHANGED clientVars
  \/ \E r \in SeqReqs : GenFail(r, SmallErrors) /\ UNCHANGED clientVars
  \/ \E r \in SeqReqs : StartMinimal(r) /\ UNCHANGED clientVars
  \/ \E r \in SeqReqs : ReadBodyMinimal(r, VariantBodies) /\ UNCHANGED clientVars
  \/ \E r \in SeqReqs : GenReturnMinimal(r, AllTexts) /\ UNCHANGED clientVars
  \/ \E r \in SeqReqs : GenFailMinimal(r, GenErrors) /\ UNCHANGED clientVars

SpecVariants == Init /\ [][NextVariants]_vars

\* the rate-limited handler on every short completion text
NextSanitizer ==
  \/ \E r \in SeqReqs, h \in HeavyHeaders : Start(r, h) /\ UNCHANGED clientVars
  \/ \E r \in SeqReqs : RateCheck(r) /\ UNCHANGED clientVars
  \/ \E r \in SeqReqs : ReadBody(r, {GoodBody}) /\ UNCHANGED clientVars
  \/ \E r \in SeqReqs : GenReturn(r, ShortTexts) /\ UNCHANGED clientVars
  \/ \E r \in SeqReqs : GenFail(r, SmallErrors) /\ UNCHANGED clientVars

SpecSanitizer == Init /\ [][NextSanitizer]_vars

\* the rate-limited handler on serialised recipes in fences
NextRoundTrip ==
  \/ \E r \in SeqReqs, h \in HeavyHeaders : Start(r, h) /\ UNCHANGED clientVars
  \/ \E r \in SeqReqs : RateCheck(r) /\ UNCHANGED clientVars
  \/ \E r \in SeqReqs : ReadBody(r, {GoodBody}) /\ UNCHANGED clientVars
  \/ \E r \in SeqReqs : GenReturn(r, RoundTripTexts) /\ UNCHANGED clientVars
  \/ \E r \in SeqReqs : GenFail(r, SmallErrors) /\ UNCHANGED clientVars

SpecRoundTrip == Init /\ [][NextRoundTrip]_vars

\* the rate-limited handler on payloads and completions of every kind, with
\* every await of a request settling: headers() and req.json() settle, and
\* generateContent returns or throws; each of these steps moves the request
\* on, so fairness is stated over pc
LiveBodies == VariantBodies \cup {Body("object", Str(0, MAX_TOKENS, 0), Str(0, 1, 0))}
LiveTexts ==
  (JsonTexts \ TwoFieldTexts)
    \cup {Fenced(FullRecipe), FencedPlain(FullRecipe), Padded(FullRecipe), WithProse(FullRecipe)}

NextLive ==
  \/ \E r \in SeqReqs, h \in HeavyHeaders : Start(r, h) /\ UNCHANGED clientVars
  \/ \E r \in SeqReqs : RateCheck(r) /\ UNCHANGED clientVars
  \/ \E r \in SeqReqs : ReadBody(r, LiveBodies) /\ UNCHANGED clientVars
  \/ \E r \in SeqReqs : GenReturn(r, LiveTexts) /\ UNCHANGED clientVars
  \/ \E r \in SeqReqs : GenFail(r, GenErrors) /\ UNCHANGED clientVars

SpecLive ==
  /\ Init
  /\ [][NextLive]_vars
  /\ \A r \in SeqReqs :
       /\ WF_pc(RateCheck(r))
       /\ WF_pc(ReadBody(r, LiveBodies))
       /\ WF_pc(GenReturn(r, LiveTexts) \/ GenFail(r, GenErrors))

\* requests under every kind of header against the clock and the sweep
NextKeys ==
  \/ Tick /\ UNCHANGED clientVars
  \/ Sweep /\ UNCHANGED clientVars
  \/ \E r \in SeqReqs, h \in KeyHeaders : Start(r, h) /\ UNCHANGED clientVars
  \/ \E r \in SeqReqs : RateCheck(r) /\ UNCHANGED clientVars
  \/ \E r \in SeqReqs : ReadBody(r, SmallBodies) /\ UNCHANGED clientVars
  \/ \E r \in SeqReqs : GenReturn(r, SmallTexts) /\ UNCHANGED clientVars
  \/ \E r \in SeqReqs : GenFail(r, SmallErrors) /\ UNCHANGED clientVars

SpecKeys == Init /\ [][NextKeys]_vars

\* requests that all fail after the rate-limit check: the payload cannot be
\* read or is blank, the upstream call fails, or the completion is no recipe
FailingBodies ==
  {GoodBody, Body("object", Str(1, 0, 0), Str(0, 1, 0)),
   Body("malformed", NonStr("undefined"), NonStr("undefined"))}
FailingTexts == {<<"Sorry">>, Fenced(Pancakes)}

NextFailures ==
  \/ Tick /\ UNCHANGED clientVars
  \/ Sweep /\ UNCHANGED clientVars
  \/ \E r \in SeqReqs, h \in Headers : Start(r, h) /\ UNCHANGED clientVars
  \/ \E r \in SeqReqs : RateCheck(r) /\ UNCHANGED clientVars
  \/ \E r \in SeqReqs : ReadBody(r, FailingBodies) /\ UNCHANGED clientVars
  \/ \E r \in SeqReqs : GenReturn(r, FailingTexts) /\ UNCHANGED clientVars
  \/ \E r \in SeqReqs : GenFail(r, GenErrors) /\ UNCHANGED clientVars

SpecFailures == Init /\ [][NextFailures]_vars

\* the page and the rate-limited handler: the page's requests, one handler slot
ClientTexts == {Fenced(FullRecipe), <<"Sorry">>}

NextClient ==
  \/ Tick /\ UNCHANGED clientVars
  \/ \E k \in Fetches, byKey \in BOOLEAN : onSubmit(k, byKey)
  \/ \E k \in Fetches, r \in SeqReqs, h \in HeavyHeaders : Accept(k, r, h)
  \/ \E r \in SeqReqs : RateCheck(r) /\ UNCHANGED clientVars
  \/ \E r \in SeqReqs : ReadBody(r, SmallBodies) /\ UNCHANGED clientVars
  \/ \E r \in SeqReqs : GenReturn(r, ClientTexts) /\ UNCHANGED clientVars
  \/ \E r \in SeqReqs : GenFail(r, GenErrors) /\ UNCHANGED clientVars
  \/ \E k \in Fetches : Receive(k)
  \/ \E k \in Fetches : FetchFails(k)
  \/ handleStop
  \/ \E k \in Fetches : AbortContinuation(k)
  \/ handleClear
  \/ \E i \in Fetches : loadRecipe(i)
  \/ \E i \in Fetches : deleteRecipe(i)
  \/ \E value \in {<<"x">>} : onValueChange(value)
  \/ Mount

SpecClient == Init /\ [][NextClient]_vars

(***************************************************************************)
(* Properties.                                                             *)
(***************************************************************************)
\* the step in which request r's rate limit is checked
RateStep(r) == pc[r] = "headers" /\ pc'[r] # "headers"
Allowed(r) == pc'[r] = "json"
Denied(r) == pc'[r] = "idle" /\ resp'.status = 429 /\ resp'.error = RateLimitMsg

\* C1: for one key, starting from no entry and with every call within one window
\* of the first (calls[k].n counts exactly these calls), calls 1 to 20 are
\* allowed and call 21 and every later one is denied.
C1_TwentyAllowedThenDenied ==
  [][\A r \in SeqReqs :
       RateStep(r) /\ calls'[ClientKey(hdr[r])].n >= 1
         => /\ Allowed(r) <=> calls'[ClientKey(hdr[r])].n <= MAX_REQUESTS_PER_IP
            /\ Denied(r) <=> calls'[ClientKey(hdr[r])].n > MAX_REQUESTS_PER_IP]_vars

\* the 21st call, made exactly one window after the first, has been denied
C1_Witness ==
  /\ calls[HeavyKey].n = MAX_REQUESTS_PER_IP + 1
  /\ now - calls[HeavyKey].start = RATE_LIMIT_WINDOW
  /\ resp.status = 429

\* C2: a call for a key whose entry is older than the window, whatever its
\* count, is allowed and leaves the entry as count 1, timestamp now.
C2_ExpiredEntryResets ==
  [][\A r \in SeqReqs :
       LET k == ClientKey(hdr[r])
       IN (RateStep(r) /\ k \in DOMAIN ipRequests
             /\ now - ipRequests[k].timestamp > RATE_LIMIT_WINDOW)
            => Allowed(r) /\ ipRequests'[k] = Entry(1, now)]_vars

\* a call has just reset an entry that was there and older than the window
C2_Witness ==
  /\ pc[1] = "json"
  /\ calls[HeavyKey] = NoCount
  /\ HeavyKey \in DOMAIN ipRequests
  /\ ipRequests[HeavyKey] = Entry(1, now)
  /\ grants[HeavyKey] = [start |-> now, n |-> 1]

\* C3 as stated: the 21st of any 21 sequential requests of one key within one
\* hour is answered 429 with the rate-limit message.
C3_AnyRunOf21 ==
  [][\A r \in SeqReqs :
       RateStep(r) /\ run' # run /\ run'.n = MAX_REQUESTS_PER_IP + 1 => Denied(r)]_vars

\* C3, amended: the 21st of 21 sequential requests of one key within one hour,
\* the first of which found no entry of the key younger than the window, is
\* answered 429 with the rate-limit message; and for a request answered 429
\* the payload was neither read nor validated and generateContent not called.
C3_FreshRunOf21 ==
  /\ [][\A r \in SeqReqs :
          RateStep(r) /\ run' # run /\ run'.n = MAX_REQUESTS_PER_IP + 1 /\ run'.fresh
            => Denied(r)]_vars
  /\ [](resp.status = 429
          => /\ ~resp.trace.validated
             /\ resp.trace.genCalls = 0
             /\ resp.trace.req = NoBody
             /\ resp.error = RateLimitMsg)

\* the 21st request of a run, one window after the first, answered 429 after
\* earlier requests of the run ended in other ways
C3_Witness ==
  /\ run.n = MAX_REQUESTS_PER_IP + 1
  /\ run.fresh
  /\ now - run.start = RATE_LIMIT_WINDOW
  /\ resp.status = 429

\* C4: under any interleaving of in-flight requests, a key is allowed at most
\* 20 requests in the window that starts at its first allowed request, and the
\* entry's count is the number of requests allowed in it: no increment is lost.
C4_AtomicCheckAndUpdate ==
  \A k \in Keys :
    /\ grants[k].n <= MAX_REQUESTS_PER_IP
    /\ k \in DOMAIN ipRequests
         => /\ ipRequests[k].timestamp = grants[k].start
            /\ ipRequests[k].count = grants[k].n

\* two requests suspended at different awaits while the key is at its limit in
\* a later window
C4_Witness ==
  /\ \E r1, r2 \in Reqs : pc[r1] = "generate" /\ pc[r2] = "json"
  /\ grants[HeavyKey].n = MAX_REQUESTS_PER_IP
  /\ grants[HeavyKey].start > 0

\* C5: a denied call leaves the map as it was, and every entry's count is
\* between 1 and 20 in every reachable state.
C5_DeniedCallLeavesMap ==
  /\ [][\A r \in SeqReqs : RateStep(r) /\ ~Allowed(r) => ipRequests' = ipRequests]_vars
  /\ [](\A k \in DOMAIN ipRequests :
          ipRequests[k].count >= 1 /\ ipRequests[k].count <= MAX_REQUESTS_PER_IP)

\* a denial with two keys in the map
C5_Witness ==
  /\ resp.status = 429
  /\ Cardinality(DOMAIN ipRequests) = 2
  /\ ipRequests[HeavyKey].count = MAX_REQUESTS_PER_IP

\* a payload field that is empty or whitespace only
Blank(v) == IsString(v) /\ v.core = 0
BothStrings(b) == b.kind = "object" /\ IsString(b.ingredients) /\ IsString(b.steps)
TotalLength(b) == Length(b.ingredients) + Length(b.steps)
\* the request of the last response, when its payload was read
Answered == resp.status # 0 /\ resp.trace.req # NoBody

\* C6: when ingredients or steps is empty or whitespace only, validateInput
\* rejects with the empty-input error, whatever the lengths, the handler
\* answers 400 with it, and the request never reaches generateContent.
C6_BlankInputIs400 ==
  /\ Answered /\ BothStrings(resp.trace.req)
       /\ (Blank(resp.trace.req.ingredients) \/ Blank(resp.trace.req.steps))
       => /\ validateInput(resp.trace.req.ingredients, resp.trace.req.steps)
               = Return(EmptyInputMsg)
          /\ resp.status = 400
          /\ resp.error = EmptyInputMsg
          /\ resp.trace.genCalls = 0
  /\ \A r \in SeqReqs :
       pc[r] = "generate" /\ BothStrings(tr[r].req)
         => ~Blank(tr[r].req.ingredients) /\ ~Blank(tr[r].req.steps)

\* a whitespace-only field in a payload longer than the maximum, answered 400
C6_Witness ==
  /\ Answered /\ BothStrings(resp.trace.req)
  /\ Blank(resp.trace.req.steps) /\ ~Blank(resp.trace.req.ingredients)
  /\ TotalLength(resp.trace.req) > MAX_TOKENS
  /\ resp.status = 400 /\ resp.error = EmptyInputMsg

\* C7: with both fields non-empty after trimming, the input is accepted when
\* the lengths, whitespace included, add up to at most 30000, and rejected
\* with the input-too-large error when they add up to more.
C7_LengthBound ==
  /\ Answered /\ BothStrings(resp.trace.req)
       /\ ~Blank(resp.trace.req.ingredients) /\ ~Blank(resp.trace.req.steps)
       => IF TotalLength(resp.trace.req) <= MAX_TOKENS
          THEN /\ validateInput(resp.trace.req.ingredients, resp.trace.req.steps) = Return(<<>>)
               /\ resp.trace.genCalls = 1
               /\ resp.status # 400
          ELSE /\ validateInput(resp.trace.req.ingredients, resp.trace.req.steps)
                    = Return(TooLongMsg)
               /\ resp.status = 400
               /\ resp.error = TooLongMsg
               /\ resp.trace.genCalls = 0
  /\ \A r \in SeqReqs :
       pc[r] = "generate" /\ BothStrings(tr[r].req) => TotalLength(tr[r].req) <= MAX_TOKENS

\* a payload of exactly 30000 characters, whitespace among them, accepted
C7_Witness ==
  /\ Answered /\ BothStrings(resp.trace.req)
  /\ TotalLength(resp.trace.req) = MAX_TOKENS
  /\ resp.trace.req.ingredients.lead + resp.trace.req.ingredients.trail > 0
  /\ resp.trace.genCalls = 1
  /\ resp.status = 200

\* the payload the spec's InputValidator accepts
PayloadValid(b) ==
  /\ BothStrings(b)
  /\ ~Blank(b.ingredients) /\ ~Blank(b.steps)
  /\ TotalLength(b) <= MAX_TOKENS

\* C8: every rate-allowed request whose payload fails validation, a payload
\* of the wrong shape included, is answered 400 with an error, and
\* generateContent is not called for it.
C8_InvalidPayloadIs400 ==
  Answered /\ resp.trace.req.kind = "object" /\ ~PayloadValid(resp.trace.req)
    => resp.status = 400 /\ resp.error # <<>> /\ resp.trace.genCalls = 0

\* C9: when generateContent fails or throws, the handler answers 500 with an
\* error message and the completion is neither cleaned nor validated.
C9_UpstreamFailureIs500 ==
  resp.trace.upstream = "failed"
    => /\ resp.status = 500
       /\ resp.error # <<>>
       /\ resp.body = Undefined
       /\ ~resp.trace.cleaned
       /\ resp.trace.genCalls = 1

\* a thrown value that is no Error, answered with the fallback message
C9_Witness ==
  /\ resp.trace.upstream = "failed"
  /\ resp.status = 500
  /\ resp.error = FallbackMsg

\* what the recipe validator finds in a cleaned text
FirstBadList(recipe) ==
  LET bad == SelectSeq(<<"titleVariations", "ingredients", "instructions">>,
                       LAMBDA f : ~IsArray(Get(recipe, f)) \/ Get(recipe, f).x = <<>>)
  IN IF bad = <<>> THEN "" ELSE Head(bad)

Verdict(text) ==
  LET p == JSONParse(clean(text))
  IN IF ~p.ok THEN "malformed"
     ELSE IF p.val.t = "null" THEN "null"
     ELSE IF \E i \in 1..Len(requiredFields) : ~Truthy(Get(p.val, requiredFields[i]))
     THEN "missing"
     ELSE IF FirstBadList(p.val) # "" THEN "empty"
     ELSE "ok"

\* C10: a completion that fails the recipe validator is answered 500 with the
\* invalid-recipe-format message followed by the diagnostic of that failure
\* (the parser's, the list of missing fields, the list that is empty); any
\* other completion is answered 200 with the parsed recipe.
C10_InvalidRecipeIs500 ==
  resp.trace.upstream = "ok"
    => LET text == resp.trace.text
           v == Verdict(text)
           recipe == JSONParse(clean(text)).val
       IN /\ resp.trace.cleaned
          /\ v = "ok" => resp.status = 200 /\ resp.error = <<>> /\ resp.body = recipe
          /\ v # "ok" => resp.status = 500 /\ resp.body = Undefined
                           /\ Len(resp.error) > 1 /\ resp.error[1] = InvalidPrefix
          /\ v = "malformed" => resp.error = <<InvalidPrefix>> \o ParserDiagnostic
          /\ v = "missing"
               => /\ resp.error[2] = MissingPrefix
                  /\ \A i \in 1..Len(requiredFields) :
                       ~Truthy(Get(recipe, requiredFields[i]))
                         <=> \E j \in 3..Len(resp.error) : resp.error[j] = requiredFields[i]
          /\ v = "empty" => resp.error = <<InvalidPrefix>> \o NonEmptyArrayMsg(FirstBadList(recipe))

\* a fenced recipe whose ingredients list is empty, answered 500 naming it
C10_Witness ==
  /\ resp.trace.upstream = "ok"
  /\ StartsWith(resp.trace.text, 1, Fence)
  /\ resp.status = 500
  /\ resp.error = <<InvalidPrefix>> \o NonEmptyArrayMsg("ingredients")

\* the field names a missing-fields message lists
Listed(error) == {error[j] : j \in 3..Len(error)} \ {", "}
IsMissingFieldsError(error) ==
  /\ Len(error) > 2
  /\ SubSeq(error, 1, 2) = <<InvalidPrefix, MissingPrefix>>
  /\ Len(error) = 1 + 2 * Cardinality(Listed(error))
Absent(recipe, f) == Get(recipe, f).t = "undefined"
\* there, with the value null, false, 0 or the empty string
PresentFalsy(recipe, f) ==
  LET v == Get(recipe, f)
  IN \/ v.t = "null"
     \/ v.t = "bool" /\ v.x = <<"false">>
     \/ v.t = "num" /\ v.x = <<"0">>
     \/ v.t = "str" /\ v.x = <<>>
FieldSet == {requiredFields[i] : i \in 1..Len(requiredFields)}
\* C11 as stated: for a parsed object with a required field absent, the
\* missing-fields failure lists exactly the absent fields and no field that is
\* present, and for the object with only name and servings it lists exactly
\* prepTime, cookTime, ingredients, instructions.
C11_ListsExactlyAbsent ==
  LET p == JSONParse(clean(resp.trace.text))
      recipe == p.val
      listed == Listed(resp.error)
  IN resp.trace.upstream = "ok" /\ p.ok /\ recipe.t = "obj"
       /\ (\E f \in FieldSet : Absent(recipe, f))
       => /\ resp.status = 500
          /\ IsMissingFieldsError(resp.error)
          /\ \A f \in FieldSet : f \in listed <=> Absent(recipe, f)
          /\ clean(resp.trace.text) = NameAndServings
               => listed = {"prepTime", "cookTime", "ingredients", "instructions"}

\* C11, amended: for a parsed object with one of the seven fields absent or
\* falsy (null, false, 0, the empty string), the failure lists exactly those
\* fields, each once and in the order of the schema; for the object with only
\* name and servings these are titleVariations, prepTime, cookTime,
\* ingredients, instructions.
C11_ListsAbsentOrFalsy ==
  LET p == JSONParse(clean(resp.trace.text))
      recipe == p.val
      listed == Listed(resp.error)
  IN resp.trace.upstream = "ok" /\ p.ok /\ recipe.t = "obj"
       /\ (\E f \in FieldSet : Absent(recipe, f) \/ PresentFalsy(recipe, f))
       => /\ resp.status = 500
          /\ IsMissingFieldsError(resp.error)
          /\ \A f \in FieldSet : f \in listed <=> Absent(recipe, f) \/ PresentFalsy(recipe, f)
          /\ \A i, j \in 1..Len(requiredFields) :
               i < j /\ requiredFields[i] \in listed /\ requiredFields[j] \in listed
                 => \E m, n \in 3..Len(resp.error) :
                      m < n /\ resp.error[m] = requiredFields[i] /\ resp.error[n] = requiredFields[j]
          /\ clean(resp.trace.text) = NameAndServings
               => resp.error = <<InvalidPrefix, MissingPrefix, "titleVariations", ", ", "prepTime",
                                 ", ", "cookTime", ", ", "ingredients", ", ", "instructions">>

\* a failure that lists a field that is absent and one that is there but falsy
C11_Witness ==
  LET recipe == JSONParse(clean(resp.trace.text)).val
  IN /\ resp.trace.upstream = "ok"
     /\ IsMissingFieldsError(resp.error)
     /\ \E f, g \in Listed(resp.error) : Absent(recipe, f) /\ PresentFalsy(recipe, g)

\* a list with at least one element
NonEmptyList(v) == v.t = "arr" /\ v.x # <<>>
\* name, servings, prepTime, cookTime there, instructions a non-empty list and
\* ingredients the empty list
HasEmptyIngredients(recipe) ==
  /\ recipe.t = "obj"
  /\ \A f \in {"name", "servings", "prepTime", "cookTime"} :
       Get(recipe, f).t = "str" /\ Get(recipe, f).x # <<>>
  /\ NonEmptyList(Get(recipe, "instructions"))
  /\ Get(recipe, "ingredients") = JArr(<<>>)

\* C12 as stated: an object with name, servings, prepTime, cookTime, non-empty
\* instructions and ingredients the empty list fails with the empty-list
\* error that names ingredients.
C12_EmptyIngredientsNamed ==
  LET p == JSONParse(clean(resp.trace.text))
  IN resp.trace.upstream = "ok" /\ p.ok /\ HasEmptyIngredients(p.val)
       => /\ resp.status = 500
          /\ resp.error = <<InvalidPrefix>> \o NonEmptyArrayMsg("ingredients")

\* C12, amended: such an object fails with the empty-list error that names
\* ingredients when it also has a non-empty titleVariations list; without
\* titleVariations it fails with the missing-fields error that names
\* titleVariations.
C12_EmptyIngredientsWithTitles ==
  LET p == JSONParse(clean(resp.trace.text))
  IN resp.trace.upstream = "ok" /\ p.ok /\ HasEmptyIngredients(p.val)
       => /\ resp.status = 500
          /\ NonEmptyList(Get(p.val, "titleVariations"))
               => resp.error = <<InvalidPrefix>> \o NonEmptyArrayMsg("ingredients")
          /\ Absent(p.val, "titleVariations")
               => resp.error = <<InvalidPrefix, MissingPrefix, "titleVariations">>

\* the object of the example, with title variations added, written without
\* fences and answered with the error that names ingredients
C12_Witness ==
  /\ resp.trace.upstream = "ok"
  /\ resp.trace.text = RecipeText([AllGood EXCEPT !["ingredients"] = "emptyArray"])
  /\ resp.error = <<InvalidPrefix>> \o NonEmptyArrayMsg("ingredients")

\* C13 as stated: the json-fenced Simple Pancakes completion of a valid,
\* rate-allowed request is answered 200 with a body equal to the object.
C13_PancakesIs200 ==
  resp.trace.upstream = "ok" /\ resp.trace.validated /\ resp.trace.text = Fenced(SimplePancakes)
    => resp.status = 200 /\ resp.body = SimplePancakesValue

\* C13, amended: the minimal handler answers the json-fenced Simple Pancakes
\* completion 200 with a body equal to the object; the rate-limited handler
\* answers it 500, missing titleVariations, and answers 200 with a body equal
\* to the object when the object also has a non-empty titleVariations list.
C13_PancakesByVariant ==
  resp.trace.upstream = "ok"
    => /\ resp.trace.text = Fenced(SimplePancakes) /\ resp.trace.minimal
            => resp.status = 200 /\ resp.body = SimplePancakesValue
       /\ resp.trace.text = Fenced(SimplePancakes) /\ ~resp.trace.minimal
            => /\ resp.status = 500
               /\ resp.error = <<InvalidPrefix, MissingPrefix, "titleVariations">>
       /\ resp.trace.text = Fenced(TitledPancakes) /\ ~resp.trace.minimal
            => resp.status = 200 /\ resp.body = TitledPancakesValue

\* the minimal handler has answered the fenced Simple Pancakes text with 200
C13_Witness ==
  /\ resp.trace.minimal
  /\ resp.trace.text = Fenced(SimplePancakes)
  /\ resp.status = 200
  /\ resp.body = SimplePancakesValue

\* the Markdown fences of a text: its maximal runs of three or more backticks
FenceStarts(x) ==
  {i \in 1..Len(x) : /\ x[i] = BT
                      /\ (i = 1 \/ x[i - 1] # BT)
                      /\ StartsWith(x, i, Fence)}
AtMostOnePair(x) == Cardinality(FenceStarts(x)) <= 2

\* C14: for every completion text with at most one pair of Markdown fences,
\* cleaning the cleaned text again gives the cleaned text.
C14_CleanIdempotent ==
  resp.trace.upstream = "ok" /\ resp.trace.cleaned /\ AtMostOnePair(resp.trace.text)
    => clean(clean(resp.trace.text)) = clean(resp.trace.text)

\* C15: a well-formed recipe (every field there, the lists non-empty, any
\* strings), serialised, wrapped in fences, cleaned, parsed and validated, is
\* answered 200 with a value equal to the recipe.
C15_RoundTrip ==
  \A v \in RoundTripRecipes :
    resp.trace.upstream = "ok"
      /\ resp.trace.text \in {Fenced(Stringify(v)), FencedPlain(Stringify(v))}
      => resp.status = 200 /\ resp.body = v

\* C16: the body of a 200 response is the value the cleaned text parses to,
\* with every member the text has and no other, each with the value and the
\* type it has in the text; and it is the value its serialisation denotes.
C16_BodyIsParsedValue ==
  LET p == JSONParse(clean(resp.trace.text))
  IN resp.status = 200 /\ ~resp.trace.minimal
       => /\ p.ok
          /\ resp.body = p.val
          /\ JSONParse(Stringify(resp.body)).ok
          /\ JSONParse(Stringify(resp.body)).val = p.val

\* a 200 response whose body keeps a member the schema does not have
C16_Witness ==
  /\ resp.status = 200
  /\ Get(resp.body, "notes") = JStr(<<"X">>)
  /\ Len(resp.body.x) = Len(requiredFields) + 1

\* the fields and the lists of the two schemas
RequiredOf(minimal) == IF minimal THEN FieldSet \ {"titleVariations"} ELSE FieldSet
ListsOf(minimal) ==
  IF minimal THEN {"ingredients", "instructions"}
  ELSE {"titleVariations", "ingredients", "instructions"}
RecipeInvariant(body, minimal) ==
  /\ body.t = "obj"
  /\ \A f \in RequiredOf(minimal) : ~Absent(body, f)
  /\ \A f \in ListsOf(minimal) : NonEmptyList(Get(body, f))

\* C17: the body of every 200 response, of the rate-limited handler and of the
\* minimal handler, has every field of its schema, with the lists non-empty.
C17_BodyIsRecipe ==
  resp.status = 200 => RecipeInvariant(resp.body, resp.trace.minimal)

\* C18: generateContent is called at most once for a request, and the step
\* that follows the call, whether the call failed or returned a completion
\* of any kind, ends the request with its response: a failed call, or a
\* completion that is malformed or invalid, with status 500.
C18_NoRetry ==
  /\ [](\A r \in SeqReqs : tr[r].genCalls <= 1)
  /\ [](resp.trace.genCalls <= 1)
  /\ [][\A r \in SeqReqs :
          pc[r] = "generate" /\ tr'[r] # tr[r]
            => /\ pc'[r] = "idle"
               /\ resp'.trace.genCalls = 1
               /\ resp'.trace.upstream \in {"ok", "failed"}
               /\ resp'.status \in {200, 500}
               /\ resp'.trace.upstream = "failed" => resp'.status = 500]_vars

\* a malformed completion answered 500 after the one call
C18_Witness ==
  /\ resp.trace.upstream = "ok"
  /\ resp.trace.genCalls = 1
  /\ resp.status = 500
  /\ resp.error = <<InvalidPrefix>> \o ParserDiagnostic
  /\ pc[1] = "idle"

\* a response of one of the four kinds: 200 with a body and no error, or 400,
\* 429 or 500 with an error message and no other body
WellFormedResponse(a) ==
  /\ a.status \in {200, 400, 429, 500}
  /\ a.status = 200 => a.error = <<>> /\ a.body.t # "undefined"
  /\ a.status # 200 => a.error # <<>> /\ a.body.t = "undefined"

\* two responses that differ in nothing a client or the trace can see
SameResponse(a, b) ==
  /\ a.status = b.status
  /\ a.error = b.error
  /\ a.body.t = b.body.t
  /\ Stringify(a.body) = Stringify(b.body)
  /\ a.trace = b.trace

\* C19: every request, whatever its payload and the completion, comes to its
\* end; the step that ends it sends one response, of one of the four kinds;
\* and a response is sent by no other step.
C19_OneResponse ==
  /\ \A r \in SeqReqs : (pc[r] # "idle") ~> (pc[r] = "idle")
  /\ [][\A r \in SeqReqs :
          pc[r] # "idle" /\ pc'[r] = "idle" => WellFormedResponse(resp')]_vars
  /\ [][~SameResponse(resp', resp)
          => \E r \in SeqReqs :
               \/ (pc[r] # "idle" /\ pc'[r] = "idle")
               \/ (pc[r] = "idle" /\ pc'[r] # "idle" /\ resp'.status = 0)]_vars
  /\ [](resp.status = 0 \/ WellFormedResponse(resp))

\* a request whose payload could not be read, ended with 500
C19_Witness ==
  /\ resp.trace.req.kind = "malformed"
  /\ resp.status = 500
  /\ resp.error # <<>>
  /\ pc[1] = "idle"

\* C20: a request the client aborted while the handler had it is not ended by
\* the handler as an upstream error, and the page records the abort with the
\* message Generation stopped, not with the generic failure message.
C20_AbortIsCancelled ==
  /\ resp.trace.aborted => ~(resp.status = 500 /\ resp.trace.upstream = "failed")
  /\ \A k \in Fetches :
       net[k].end = "abort" => net[k].shown = StoppedMsg /\ net[k].shown # ClientFailMsg

\* the entry of key j, or none
EntryOf(m, j) == IF j \in DOMAIN m THEN <<m[j]>> ELSE <<>>

\* the rate-limit step of request r is the step of isRateLimited on the
\* counter of key k and on no other
UsesCounter(r, k) ==
  LET res == isRateLimited(ipRequests, k, now)
  IN /\ ipRequests' = res.map
     /\ (pc'[r] = "idle" /\ resp'.status = 429) <=> res.limited
     /\ \A j \in Keys \ {k} :
          /\ EntryOf(ipRequests', j) = EntryOf(ipRequests, j)
          /\ calls'[j] = calls[j]
          /\ grants'[j] = grants[j]

FirstEntry(h) == h[1]

\* C21 as stated: the key is the first entry of the header whenever there is
\* a header, and the fallback key when there is none.
C21_KeyIsFirstEntry ==
  [][\A r \in SeqReqs :
       pc[r] = "headers" /\ pc'[r] # "headers"
         => UsesCounter(r, IF hdr[r] = NoHeader THEN "unknown" ELSE FirstEntry(hdr[r]))]_vars

\* C21: the rate-limit step of a request uses the counter of the first entry
\* of its header and no other counter when the header is there and not the
\* empty string; it uses the counter of the fallback key when the header is
\* absent or the empty string.
C21_KeyIsFirstEntryOrFallback ==
  [][\A r \in SeqReqs :
       pc[r] = "headers" /\ pc'[r] # "headers"
         => UsesCounter(r, IF hdr[r] = NoHeader \/ hdr[r] = <<"">>
                           THEN "unknown" ELSE FirstEntry(hdr[r]))]_vars

\* counters of the fallback key, of the empty first entry and of two other
\* first entries side by side, with different counts
C21_Witness ==
  /\ {"unknown", "", "b", HeavyKey} \subseteq DOMAIN ipRequests
  /\ ipRequests[HeavyKey].count = 3
  /\ ipRequests["b"].count = 1
  /\ ipRequests["unknown"].count = 1
  /\ now - ipRequests[HeavyKey].timestamp <= RATE_LIMIT_WINDOW

\* C22: a sweep run (the one step that changes the map and moves no request)
\* leaves in the map exactly the entries whose age is at most the window, each
\* as it was.
C22_SweepRemovesExpiredOnly ==
  [][pc' = pc /\ ipRequests' # ipRequests
       => /\ DOMAIN ipRequests' =
               {k \in DOMAIN ipRequests : now - ipRequests[k].timestamp <= RATE_LIMIT_WINDOW}
          /\ \A k \in DOMAIN ipRequests' : ipRequests'[k] = ipRequests[k]]_vars

\* a sweep at one millisecond past the window has removed the entry made at
\* time 0 and kept the entry made at time 1, whose age is the window exactly
C22_Witness ==
  /\ now = RATE_LIMIT_WINDOW + 1
  /\ grants[HeavyKey].n > 0 /\ grants[HeavyKey].start = 0
  /\ HeavyKey \notin DOMAIN ipRequests
  /\ "b" \in DOMAIN ipRequests
  /\ ipRequests["b"].timestamp = 1

\* the step leaves the current recipe, the history and their saved copies alone
RecipesUnchanged ==
  /\ client'.recipe = client.recipe
  /\ client'.recipeHistory = client.recipeHistory
  /\ client'.storedRecipe = client.storedRecipe
  /\ client'.storedHistory = client.storedHistory

\* C23: no step of a request that does not end in success changes the current
\* recipe or the history; the step that ends a request in an error response, a
\* network failure or an abort leaves isLoading false and controller null, and
\* for an error response the error shown is the message of the response.
C23_FailureLeavesIdle ==
  [][\A k \in Fetches :
       /\ net'[k] # net[k] /\ net'[k].end \notin {"ok", "unload"} => RecipesUnchanged
       /\ net[k].st # "settled" /\ net'[k].st = "settled"
            /\ net'[k].end \in {"errorResponse", "network", "abort"}
            => /\ ~client'.isLoading
               /\ client'.controller = 0
               /\ net'[k].end = "errorResponse"
                    => /\ resp.status \in {400, 429, 500}
                       /\ resp.error # <<>>
                       /\ client'.error = resp.error]_vars

\* the second request has ended in an error response while the recipe of the
\* first is shown and in the history
C23_Witness ==
  /\ net[1].end = "ok"
  /\ net[2].st = "settled" /\ net[2].end = "errorResponse"
  /\ client.error = net[2].shown /\ client.error = resp.error /\ resp.status = 500
  /\ ~client.isLoading /\ client.controller = 0
  /\ client.recipe # NoRecipe
  /\ Len(client.recipeHistory) = 1

\* the entries of a history, each known by the call of onSubmit that made it
Made(history) == {history[n].by : n \in 1..Len(history)}

\* C24: an entry comes into the history, in memory or saved, only at the step
\* at which its generation succeeds; it leaves only by deleteRecipe with its
\* id; and an entry deleteRecipe has removed is in neither history again.
C24_DeletedStaysDeleted ==
  /\ [][\A k \in Fetches :
          k \in (Made(client'.recipeHistory) \ Made(client.recipeHistory))
                  \cup (Made(client'.storedHistory) \ Made(client.storedHistory))
            => net[k].end # "ok" /\ net'[k].end = "ok"]_vars
  /\ [][\A k \in Fetches :
          k \in (Made(client.recipeHistory) \ Made(client'.recipeHistory))
                  \cup (Made(client.storedHistory) \ Made(client'.storedHistory))
            => k \in client'.deleted \ client.deleted]_vars
  /\ [](\A k \in client.deleted :
          k \notin Made(client.recipeHistory) \cup Made(client.storedHistory))

\* C25: the ids of the entries of the history are pairwise distinct.
C25_IdsDistinct ==
  \A i, j \in 1..Len(client.recipeHistory) :
    i # j => client.recipeHistory[i].id # client.recipeHistory[j].id

\* the entry of key k counts at time t
LiveEntry(m, k, t) == k \in DOMAIN m /\ t - m[k].timestamp <= RATE_LIMIT_WINDOW

\* C26: with every request failing after the rate-limit check, a request that
\* passes the check takes one unit of its key's quota at that step; no later
\* step of the request gives it back; and once 20 requests of a key have
\* passed in a window, the next request of the key in that window gets 429.
C26_FailedRequestsCount ==
  /\ [](resp.status \in {0, 400, 429, 500})
  /\ [][\A r \in SeqReqs :
          LET k == ClientKey(hdr[r])
          IN pc[r] = "headers" /\ pc'[r] = "json"
               => /\ k \in DOMAIN ipRequests'
                  /\ ipRequests'[k].count =
                       IF LiveEntry(ipRequests, k, now) THEN ipRequests[k].count + 1 ELSE 1]_vars
  /\ [][\A r \in SeqReqs :
          pc[r] \in {"json", "generate"} /\ pc'[r] # pc[r] => ipRequests' = ipRequests]_vars
  /\ [][\A r \in SeqReqs :
          LET k == ClientKey(hdr[r])
          IN pc[r] = "headers" /\ pc'[r] # "headers"
               /\ grants[k].n >= MAX_REQUESTS_PER_IP
               /\ now - grants[k].start <= RATE_LIMIT_WINDOW
               => pc'[r] = "idle" /\ resp'.status = 429]_vars

\* twenty requests of one key have passed the check in a window and failed,
\* and the next one has been answered 429
C26_Witness ==
  /\ resp.status = 429
  /\ grants[HeavyKey].n = MAX_REQUESTS_PER_IP
  /\ now - grants[HeavyKey].start <= RATE_LIMIT_WINDOW
  /\ ipRequests[HeavyKey].count = MAX_REQUESTS_PER_IP
  /\ pc[1] = "idle"

\* C27: the timestamp of an entry is written only when the entry is created
\* or reset (to count 1 at the current time), never by an increment or a
\* denial; a request made more than one window after the timestamp passes
\* the check, however many were denied before; a request made exactly one
\* window after it is treated as inside the window: denied at count 20,
\* counted under the same timestamp otherwise.
C27_WindowStartFixed ==
  /\ [][\A k \in DOMAIN ipRequests' :
          \/ k \in DOMAIN ipRequests /\ ipRequests'[k].timestamp = ipRequests[k].timestamp
          \/ /\ ipRequests'[k] = Entry(1, now)
             /\ k \in DOMAIN ipRequests => now - ipRequests[k].timestamp > RATE_LIMIT_WINDOW]_vars
  /\ [][\A r \in SeqReqs :
          LET k == ClientKey(hdr[r])
          IN pc[r] = "headers" /\ pc'[r] # "headers" /\ k \in DOMAIN ipRequests
               => IF now - ipRequests[k].timestamp > RATE_LIMIT_WINDOW
                  THEN pc'[r] = "json" /\ ipRequests'[k] = Entry(1, now)
                  ELSE IF ipRequests[k].count >= MAX_REQUESTS_PER_IP
                  THEN pc'[r] = "idle" /\ resp'.status = 429 /\ ipRequests' = ipRequests
                  ELSE /\ pc'[r] = "json"
                       /\ ipRequests'[k] = Entry(ipRequests[k].count + 1, ipRequests[k].timestamp)]_vars

\* a key that kept sending while denied is denied again exactly one window
\* after the timestamp of its entry, which still reads count 20
C27_Witness ==
  /\ resp.status = 429
  /\ pc[1] = "idle"
  /\ HeavyKey \in DOMAIN ipRequests
  /\ ipRequests[HeavyKey].count = MAX_REQUESTS_PER_IP
  /\ now - ipRequests[HeavyKey].timestamp = RATE_LIMIT_WINDOW
  /\ calls[HeavyKey].n >= MAX_REQUESTS_PER_IP + 2

\* the map of the same limiter when no sweep ever runs: the entry of a key
\* is the window of its last allowed requests
NoSweepMap ==
  [k \in {j \in Keys : grants[j].n > 0} |-> Entry(grants[k].n, grants[k].start)]

\* C28: with sweeps interleaved at any time, every request gets the decision
\* the limiter without sweep gives it: at each rate-limit check the answer is
\* that of isRateLimited on the sweep-free map, the sweep-free map moves as
\* isRateLimited moves it, and no other step (a sweep least of all) moves it.
C28_SweepIsTransparent ==
  /\ [][\A r \in SeqReqs :
          pc[r] = "headers" /\ pc'[r] # "headers"
            => LET free == isRateLimited(NoSweepMap, ClientKey(hdr[r]), now)
               IN /\ (pc'[r] = "idle" /\ resp'.status = 429) <=> free.limited
                  /\ pc'[r] = "json" <=> ~free.limited
                  /\ NoSweepMap' = free.map]_vars
  /\ [][(\A r \in SeqReqs : ~(pc[r] = "headers" /\ pc'[r] # "headers"))
          => NoSweepMap' = NoSweepMap]_vars
  /\ [](NoSweepMap = MapDelete(<<>>, {}) => ipRequests = NoSweepMap)

\* a sweep has removed the exhausted entry of a key, which the sweep-free map
\* still holds, and the next request of the key waits for its decision
C28_Witness ==
  /\ now = RATE_LIMIT_WINDOW + 1
  /\ pc[1] = "headers"
  /\ ClientKey(hdr[1]) = HeavyKey
  /\ HeavyKey \notin DOMAIN ipRequests
  /\ HeavyKey \in DOMAIN NoSweepMap
  /\ NoSweepMap[HeavyKey] = Entry(MAX_REQUESTS_PER_IP, 0)

\* C29: when handleClear, or deleteRecipe on the recipe shown, sets the
\* current recipe to null, the recipe saved in localStorage is no longer that
\* recipe; and whenever no recipe is shown none is saved, so that a reload
\* shows none.
C29_ClearedRecipeNotSaved ==
  /\ [][client.recipe # NoRecipe /\ client'.recipe = NoRecipe
          => client'.storedRecipe # client.recipe]_vars
  /\ [](client.recipe = NoRecipe => client.storedRecipe = NoRecipe)

\* the fetch of call k of onSubmit is pending and has not been aborted
InFlight(k) == net[k].st \in {"sent", "served"}

====
